---- MODULE Spec2Model ----
(***************************************************************************)
(* Price simulation engine of the stock server (src/server.js, the         *)
(* settings-controlled variant, lines 1-981).                              *)
(*                                                                         *)
(* Number representation.  The program computes in IEEE-754 doubles.  The  *)
(* model holds every monetary value as an integer number of micro-units    *)
(* (1e-6 of a currency unit), so 0.01 is 10000.  changePercent is held in  *)
(* hundredths of a percent.  speed and volatilityMultiplier are held in    *)
(* tenths (speed 1 is 10).  A call of Math.random() is a draw k in         *)
(* 0..RandDen-1 standing for the value k/RandDen; RandDen is a power of    *)
(* two, so that k/RandDen is a double, as every value of Math.random() is. *)
(***************************************************************************)
EXTENDS Integers, Sequences, FiniteSets, TLC

VARIABLES
    simulationSettings,   \* the settings singleton (server.js:19-27)
    simulatedPrices,      \* Map symbol -> Quote (server.js:412)
    priceHistory,         \* Map symbol -> array of candles (server.js:413)
    storeOrder,           \* insertion order of the keys of simulatedPrices
    updateIntervalId,     \* handle of the armed price timer, 0 for null (server.js:625)
    timers,               \* the runtime's armed interval timers: handle -> period
    nextTimerId,          \* the runtime's next fresh timer handle
    clock,                \* Date.now(), as a logical instant
    wall,                 \* the calendar reading of Date at the last handler that read
                          \* it: minutes since a Sunday 00:00 UTC
    tick,                 \* the running updateSimulatedPrices call, pos = 0 when none
    response,             \* the response of the handler that ran last
    nResets,              \* number of resets so far
    limits,               \* the bounds and the environment of a behaviour: ticks, puts,
                          \* resets, lead (the last instant at which a request arrives),
                          \* the request payloads, the time that passes between handlers
    live                  \* the live-data server (src/server-realtime.js): its clock,
                          \* stockCache, the calls of fetchRealTimeQuote in flight and the
                          \* value the last finished call returned

vars == <<simulationSettings, simulatedPrices, priceHistory, storeOrder, updateIntervalId, timers,
          nextTimerId, clock, wall, tick, response, nResets, limits, live>>

(***************************************************************************)
(* Bounds of the model.                                                    *)
(***************************************************************************)
MaxTicks == 2
MaxPuts == 1
MaxResets == 1
WalkTicks == 12
HistoryDays == 7
MaxCalls == 3
MaxSymbols == 6

(***************************************************************************)
(* Arithmetic helpers.                                                     *)
(***************************************************************************)
MICRO == 1000 * 1000
CENT == MICRO \div 100
RandDen == 1024

Max(a, b) == IF a >= b THEN a ELSE b
Min(a, b) == IF a <= b THEN a ELSE b
Abs(a) == IF a < 0 THEN 0 - a ELSE a

RECURSIVE Pow2Mod100(_)
Pow2Mod100(k) == IF k = 0 THEN 1 ELSE (2 * Pow2Mod100(k - 1)) % 100

\* floor(log2(p/100)) for a positive number of cents p
RECURSIVE Log2Up(_, _)
Log2Up(p, e) == IF 200 * (2 ^ e) <= p THEN Log2Up(p, e + 1) ELSE e
RECURSIVE Log2Down(_, _)
Log2Down(q, n) == IF q < 100 THEN Log2Down(2 * q, n + 1) ELSE n
BinaryExponent(p) == IF p >= 100 THEN Log2Up(p, 0) ELSE IF p <= 0 THEN 0 ELSE 0 - Log2Down(p, 0)

\* The double nearest to the decimal p/100 lies strictly below p/100 exactly
\* when the remainder of p * 2^k by 100 is in 1..49, k = 52 - exponent.
DoubleBelowDecimal(p) ==
    LET k == 52 - BinaryExponent(p)
        rem == (p * Pow2Mod100(k)) % 100
    IN  rem > 0 /\ rem < 50

IsTie(x) == x % CENT = CENT \div 2

\* parseFloat(x.toFixed(2)) for a non-negative x that is either no decimal
\* tie or the exact half of a stored 2-decimal price: toFixed rounds the
\* double, and half of the double of p/100 lies below the tie exactly when
\* that double lies below p/100.
Round2Mut(x) == (x \div CENT) * CENT
Round2(x) ==
    IF IsTie(x)
    THEN IF DoubleBelowDecimal(x \div (CENT \div 2))
         THEN (x \div CENT) * CENT
         ELSE (x \div CENT) * CENT + CENT
    ELSE ((x + CENT \div 2) \div CENT) * CENT

\* parseFloat(x.toFixed(2)) for an x that went through further double
\* arithmetic: at an exact decimal tie the direction depends on the binary
\* rounding of the intermediate results, so both neighbours are possible.
Round2Any(x) ==
    IF IsTie(x)
    THEN {(x \div CENT) * CENT, (x \div CENT) * CENT + CENT}
    ELSE {((x + CENT \div 2) \div CENT) * CENT}

\* the integers nearest to n/d (d > 0), both neighbours at an exact tie
RoundDivAny(n, d) ==
    IF 2 * (n % d) = d
    THEN {n \div d, n \div d + 1}
    ELSE {(2 * n + d) \div (2 * d)}

\* parseFloat(((priceChange / previousClose) * 100).toFixed(2)), in hundredths of a percent
PercentOfMut(priceChange, previousClose) == RoundDivAny(priceChange, previousClose \div 100)
PercentOf(priceChange, previousClose) == RoundDivAny(priceChange, previousClose \div 10000)

\* the set that parseFloat(x.toFixed(2)) is in when x stands for a double
\* that is less than slack micro-units away from it
Round2Near(x, slack) ==
    {c * CENT : c \in ((x - slack + CENT \div 2) \div CENT)..((x + slack + CENT \div 2) \div CENT)}

\* the integers nearest to the quotients by d (d > 0) of the numbers that
\* are less than slack away from n
RoundDivNear(n, d, slack) ==
    ((2 * (n - slack) + d) \div (2 * d))..((2 * (n + slack) + d) \div (2 * d))

\* floor(x * k / m) without overflowing 32 bits (0 <= x, 0 <= k, m > 0).
\* Math.floor(Math.random() * n) is MulDiv(n, k, RandDen): the product of the
\* double k/RandDen and the integer n is exact in doubles.
MulDiv(x, k, m) == (x \div m) * k + ((x % m) * k) \div m

\* x * k / m truncated towards zero, for an x of either sign
Towards0(x, k, m) == IF x >= 0 THEN MulDiv(x, k, m) ELSE 0 - MulDiv(0 - x, k, m)

(***************************************************************************)
(* Catalog: entries of the tables of server.js (lines 47-406) in key       *)
(* order, twelve stocks and two indices.  A behaviour runs on a part of    *)
(* it: the cheapest stock and the cheapest index, the cheapest stock       *)
(* alone, or all fourteen.                                                 *)
(***************************************************************************)
StockTable ==
    << [symbol |-> "HDFCBANK.NS",  name |-> "HDFC Bank",            sector |-> "Banking",   basePrice |-> 929],
       [symbol |-> "SBIN.NS",      name |-> "State Bank of India",  sector |-> "Banking",   basePrice |-> 768],
       [symbol |-> "ITC.NS",       name |-> "ITC Ltd",              sector |-> "FMCG",      basePrice |-> 438],
       [symbol |-> "WIPRO.NS",     name |-> "Wipro",                sector |-> "IT",        basePrice |-> 295],
       [symbol |-> "NTPC.NS",      name |-> "NTPC Ltd",             sector |-> "Power",     basePrice |-> 335],
       [symbol |-> "TATASTEEL.NS", name |-> "Tata Steel",           sector |-> "Steel",     basePrice |-> 135],
       [symbol |-> "ONGC.NS",      name |-> "ONGC",                 sector |-> "Oil & Gas", basePrice |-> 265],
       [symbol |-> "COALINDIA.NS", name |-> "Coal India",           sector |-> "Mining",    basePrice |-> 385],
       [symbol |-> "PNB.NS",       name |-> "Punjab National Bank", sector |-> "Banking",   basePrice |-> 95],
       [symbol |-> "YESBANK.NS",   name |-> "Yes Bank",             sector |-> "Banking",   basePrice |-> 22],
       [symbol |-> "ZOMATO.NS",    name |-> "Zomato",               sector |-> "Food Tech", basePrice |-> 185],
       [symbol |-> "IDEA.NS",      name |-> "Vodafone Idea",        sector |-> "Telecom",   basePrice |-> 12] >>

IndexTable ==
    << [symbol |-> "^CNXREALTY", name |-> "NIFTY Realty", basePrice |-> 1085],
       [symbol |-> "^CNXMEDIA",  name |-> "NIFTY Media",  basePrice |-> 1950] >>

StockSymbols == {StockTable[i].symbol : i \in DOMAIN StockTable}
IndexSymbols == {IndexTable[i].symbol : i \in DOMAIN IndexTable}

INDIAN_STOCKS ==
    [s \in StockSymbols |->
        LET e == StockTable[CHOOSE i \in DOMAIN StockTable : StockTable[i].symbol = s]
        IN  [name |-> e.name, sector |-> e.sector, basePrice |-> e.basePrice]]

INDICES ==
    [s \in IndexSymbols |->
        LET e == IndexTable[CHOOSE i \in DOMAIN IndexTable : IndexTable[i].symbol = s]
        IN  [name |-> e.name, basePrice |-> e.basePrice]]

\* { ...INDIAN_STOCKS, ...INDICES } in key order
AllStocksOrder == <<"IDEA.NS", "^CNXREALTY">>
WalkOrder == <<"IDEA.NS">>
CatalogOrder ==
    [i \in 1..(Len(StockTable) + Len(IndexTable)) |->
        IF i <= Len(StockTable) THEN StockTable[i].symbol
                                ELSE IndexTable[i - Len(StockTable)].symbol]
AllStocks(s) == IF s \in IndexSymbols THEN INDICES[s] ELSE INDIAN_STOCKS[s]

BasePrice(s) == AllStocks(s).basePrice * MICRO

\* getVolatility, in thousandths
SectorVolatility(sector) ==
    CASE sector = "IT" -> 25
      [] sector = "Banking" -> 20
      [] sector = "Pharma" -> 22
      [] sector = "Automobile" -> 23
      [] sector = "Oil & Gas" -> 25
      [] sector = "FMCG" -> 15
      [] sector = "Steel" -> 30
      [] sector = "Finance" -> 28
      [] sector = "Telecom" -> 18
      [] sector = "Power" -> 16
      [] sector = "Cement" -> 20
      [] sector = "Construction" -> 22
      [] sector = "Conglomerate" -> 35
      [] sector = "Infrastructure" -> 25
      [] sector = "Food Tech" -> 40
      [] sector = "Fintech" -> 45
      [] sector = "E-Commerce" -> 40
      [] sector = "Retail" -> 25
      [] sector = "Consumer Goods" -> 18
      [] sector = "Paints" -> 17
      [] OTHER -> 20

getVolatilityMut(symbol) ==
    IF symbol \notin StockSymbols THEN 25
    ELSE SectorVolatility(INDIAN_STOCKS[symbol].sector)
getVolatility(symbol) ==
    IF symbol \notin StockSymbols THEN 20
    ELSE SectorVolatility(INDIAN_STOCKS[symbol].sector)

(***************************************************************************)
(* JavaScript values that a settings field of any type can hold.           *)
(***************************************************************************)
JSBool(b) == [t |-> "boolean", v |-> IF b THEN 1 ELSE 0]
JSString(len) == [t |-> "string", v |-> len]
Truthy(x) == x.v # 0

DefaultSettings ==
    [isActive |-> TRUE,
     speed |-> 10,
     volatilityMultiplier |-> 10,
     updateInterval |-> 2000,
     alwaysOpen |-> JSBool(TRUE),
     priceTickSize |-> 5 * CENT,
     maxTickMultiplier |-> 5]

(***************************************************************************)
(* Market clock.  The wall clock is the UTC day of week and minute of day. *)
(***************************************************************************)
\* Time is counted in minutes: a quarter of a day, and a day.  Date.now()
\* and getTime() are the calendar reading plus the instant, wall + clock.
QUARTER == 360
DAY == 4 * QUARTER

WallClocks ==
    { 14 * DAY + QUARTER,        \* Sunday 06:00 UTC, 11:30 IST
      15 * DAY + QUARTER }       \* Monday 06:00 UTC, 11:30 IST

\* now.getUTCDay(), and now.getUTCHours() * 60 + now.getUTCMinutes()
DateOf(t) == [utcDay |-> (t \div DAY) % 7, utcMinutes |-> t % DAY]

\* the readings of Date that the next handler can see: the last reading,
\* or a later one of the readings of the behaviour
Later == {wall} \cup {t \in limits.readings : t > wall}

isMarketOpenMut(settings, now) ==
    IF Truthy(settings.alwaysOpen)
    THEN [isOpen |-> TRUE, reason |-> "Simulation Mode - Always Open"]
    ELSE LET istMinutes == now.utcMinutes + 330
             istHour == (istMinutes \div 60) % 24
             istMinute == istMinutes % 60
             istDay == IF istMinutes >= 24 * 60 THEN (now.utcDay + 1) % 7 ELSE now.utcDay
             currentISTMinutes == istHour * 60 + istMinute
         IN  IF istDay = 0 \/ istDay = 6
             THEN [isOpen |-> FALSE, reason |-> "Weekend - Market Closed"]
             ELSE IF currentISTMinutes < 9 * 60
             THEN [isOpen |-> FALSE, reason |-> "Pre-Market - Opening at 9:15 AM IST"]
             ELSE IF currentISTMinutes < 9 * 60 + 15
             THEN [isOpen |-> FALSE, reason |-> "Pre-Market Session"]
             ELSE IF currentISTMinutes <= 15 * 60 + 30
             THEN [isOpen |-> TRUE, reason |-> "Market Open"]
             ELSE IF currentISTMinutes < 16 * 60
             THEN [isOpen |-> FALSE, reason |-> "Post-Market Session"]
             ELSE [isOpen |-> FALSE, reason |-> "Market Closed"]
isMarketOpen(settings, now) ==
    IF Truthy(settings.alwaysOpen)
    THEN [isOpen |-> TRUE, reason |-> "Simulation Mode - Always Open"]
    ELSE LET istMinutes == now.utcMinutes + 330
             istHour == (istMinutes \div 60) % 24
             istMinute == istMinutes % 60
             istDay == IF istMinutes >= 24 * 60 THEN (now.utcDay + 1) % 7 ELSE now.utcDay
             currentISTMinutes == istHour * 60 + istMinute
         IN  IF istDay = 0 \/ istDay = 6
             THEN [isOpen |-> FALSE, reason |-> "Weekend - Market Closed"]
             ELSE IF currentISTMinutes < 9 * 60
             THEN [isOpen |-> FALSE, reason |-> "Pre-Market - Opening at 9:15 AM IST"]
             ELSE IF currentISTMinutes < 9 * 60 + 15
             THEN [isOpen |-> FALSE, reason |-> "Pre-Market Session"]
             ELSE IF currentISTMinutes < 15 * 60 + 30
             THEN [isOpen |-> TRUE, reason |-> "Market Open"]
             ELSE IF currentISTMinutes < 16 * 60
             THEN [isOpen |-> FALSE, reason |-> "Post-Market Session"]
             ELSE [isOpen |-> FALSE, reason |-> "Market Closed"]

\* isMarketOpen of the live-data server (server-realtime.js:335-363): no
\* settings, and no session of its own before and after the trading hours
isMarketOpenLive(now) ==
    LET istMinutes == now.utcMinutes + 330
        istHour == (istMinutes \div 60) % 24
        istMinute == istMinutes % 60
        istDay == IF istMinutes >= 24 * 60 THEN (now.utcDay + 1) % 7 ELSE now.utcDay
        currentISTMinutes == istHour * 60 + istMinute
    IN  IF istDay = 0 \/ istDay = 6
        THEN [isOpen |-> FALSE, reason |-> "Weekend - Market Closed"]
        ELSE IF currentISTMinutes < 9 * 60
        THEN [isOpen |-> FALSE, reason |-> "Pre-Market - Opening at 9:15 AM IST"]
        ELSE IF currentISTMinutes >= 9 * 60 + 15 /\ currentISTMinutes < 15 * 60 + 30
        THEN [isOpen |-> TRUE, reason |-> "Market Open"]
        ELSE [isOpen |-> FALSE, reason |-> "Market Closed"]

\* the readings of new Date() around every limit of the two functions:
\* 9:00, 9:15, 15:30, 16:00 and midnight IST, on the days around the weekend
\* and on a Wednesday
ClockReadings ==
    [utcDay : {0, 1, 3, 5, 6},
     utcMinutes : {0, 209, 210, 224, 225, 599, 600, 629, 630, 1109, 1110, 1439}]

(***************************************************************************)
(* Math.random() draws.  One record holds the draws of one loop body.      *)
(***************************************************************************)
InitDraws ==
    { [variation |-> 485, open |-> 512, high |-> 0,   low |-> 512, volume |-> 0,    bidSize |-> 0, askSize |-> 1023],
      [variation |-> 539, open |-> 256, high |-> 512, low |-> 0,   volume |-> 1023, bidSize |-> 0, askSize |-> 1023] }

TickDraws ==
    { [numTicks |-> 0,    direction |-> 0,    movement |-> 1023, volume |-> 0,    bidSize |-> 0, askSize |-> 1023],
      [numTicks |-> 0,    direction |-> 1023, movement |-> 0,    volume |-> 9,    bidSize |-> 0, askSize |-> 1023],
      [numTicks |-> 1023, direction |-> 0,    movement |-> 0,    volume |-> 1023, bidSize |-> 0, askSize |-> 1023] }
    \cup
    \* the movement draws 808/1024 and 809/1024 on the two sides of the sum
    \* 0.7 + 0.018 * 5 of the Telecom sector under the default settings, and
    \* 768/1024, the sum 0.7 + 0.02 * 0.5 * 5 of the Banking sector under speed 0.5
    (IF limits.tickDraws = "boundary"
     THEN { [numTicks |-> 0, direction |-> 1023, movement |-> 808, volume |-> 0, bidSize |-> 0, askSize |-> 1023],
            [numTicks |-> 0, direction |-> 1023, movement |-> 809, volume |-> 0, bidSize |-> 0, askSize |-> 1023],
            [numTicks |-> 0, direction |-> 1023, movement |-> 768, volume |-> 0, bidSize |-> 0, askSize |-> 1023] }
     ELSE {})

(***************************************************************************)
(* initializeSimulatedPrices (server.js:480-509): the Quote written for    *)
(* one catalog entry.  A set because of the tie cases of toFixed.          *)
(***************************************************************************)
SectorOf(data) == IF "sector" \in DOMAIN data THEN data.sector ELSE "Index"

\* parseFloat((price * 0.9995).toFixed(2)) and parseFloat((price * 1.0005).toFixed(2)):
\* price * 0.0005 is price / 2000, a fraction of a micro-unit may remain
Bid(price) ==
    LET a == price - price \div 2000
    IN  IF price % 2000 = 0 THEN Round2Any(a)
        ELSE {((a + CENT \div 2 - 1) \div CENT) * CENT}

Ask(price) ==
    LET a == price + price \div 2000
    IN  IF price % 2000 = 0 THEN Round2Any(a)
        ELSE {((a + CENT \div 2) \div CENT) * CENT}

InitPreviousCloseMut(symbol, price) == price
InitPreviousClose(symbol, price) == BasePrice(symbol)

\* price and the unrounded open, high and low are doubles that the
\* micro-units hold cut off: price is less than 1 micro-unit away from its
\* double, price * 0.9995, price * 1.0005, high and low less than 2
InitQuotes(symbol, d, now) ==
    LET data == AllStocks(symbol)
        base == BasePrice(symbol)
        volatility == getVolatility(symbol)
        randomVariation == Towards0((2 * d.variation - RandDen) * volatility * data.basePrice,
                                    1000, RandDen)
        price == base + randomVariation
    IN  { [symbol |-> symbol,
           name |-> data.name,
           sector |-> SectorOf(data),
           price |-> p,
           previousClose |-> InitPreviousClose(symbol, price),
           open |-> base + Towards0((2 * d.open - RandDen) * data.basePrice, 5000, RandDen),
           high |-> price + MulDiv(price, 2 * d.high, 100 * RandDen),
           low |-> price - MulDiv(price, 2 * d.low, 100 * RandDen),
           volume |-> MulDiv(10000000, d.volume, RandDen) + 1000000,
           change |-> chg,
           changePercent |-> pct,
           lastUpdated |-> now,
           bid |-> b,
           ask |-> a,
           bidSize |-> MulDiv(1000, d.bidSize, RandDen) + 100,
           askSize |-> MulDiv(1000, d.askSize, RandDen) + 100] :
          p \in Round2Near(price, 1),
          chg \in Round2Near(price - base, 1),
          pct \in RoundDivNear(price - base, base \div 10000, 1),
          b \in Round2Near(price - price \div 2000, 2),
          a \in Round2Near(price + price \div 2000, 2) }

\* the draws of the pass of the loop for the i-th catalog entry: any vector,
\* or in a behaviour on the whole catalog the first and the second in turn
InitDrawsAt(i) ==
    CASE limits.initDraws = "InitDraws" -> InitDraws
      [] limits.initDraws = "boundary" ->
           \* the least and the greatest variation that Math.random() can give
           {[d EXCEPT !.variation = v] : d \in {CHOOSE d \in InitDraws : 2 * d.variation < RandDen},
                                         v \in {0, RandDen - 1}}
      [] OTHER -> {d \in InitDraws : (2 * d.variation < RandDen) <=> (i % 2 = 1)}

\* every store that one run of initializeSimulatedPrices can leave
RECURSIVE StoresUpTo(_, _, _)
StoresUpTo(n, order, now) ==
    IF n = 0 THEN {<<>>}
    ELSE { [s \in DOMAIN f \cup {order[n]} |-> IF s = order[n] THEN q ELSE f[s]] :
             f \in StoresUpTo(n - 1, order, now),
             q \in UNION { InitQuotes(order[n], d, now) : d \in InitDrawsAt(n) } }

InitStoresMut(order, now) == StoresUpTo(Len(order) - 1, order, now)
InitStores(order, now) == StoresUpTo(Len(order), order, now)

(***************************************************************************)
(* generateHistoricalData (server.js:527-561).  date is the UTC calendar   *)
(* day of toISOString, getDay() the day of week in the zone of the server, *)
(* tz quarter days east of UTC.  One vector of draws serves every candle   *)
(* of a series.                                                            *)
(***************************************************************************)
HistoryDraws ==
    { [start |-> 512, change |-> 1023, high |-> 0,    low |-> 1023, volume |-> 0],
      [start |-> 0,   change |-> 0,    high |-> 1023, low |-> 0,    volume |-> 1023] }

\* the first vector of a set of draws
OneDraw(draws) == CHOOSE d \in draws : 2 * d.start = RandDen

\* the draws of Math.random() in generateHistoricalData of the behaviour
SynthesisDraws ==
    IF limits.histDraws = "HistoryDraws" THEN HistoryDraws ELSE {OneDraw(HistoryDraws)}

\* date.toISOString().split('T')[0], as a day number
IsoDate(t) == t \div DAY

\* date.getDay()
getDay(t, tz) == ((t + tz * QUARTER) \div DAY) % 7

IsWeekend(t, tz) == getDay(t, tz) = 0 \/ getDay(t, tz) = 6

\* x * (k / RandDen) * (volatility / 1000) for 0 <= k; volatility is
\* getVolatility(symbol) in thousandths, the factor 2 of line 530 and the
\* factors 0.5 of lines 540-544 are folded into the draws
Scaled(x, k, volatility) == MulDiv(MulDiv(x, k, RandDen), volatility, 1000)

\* The micro-units hold currentPrice cut off.  When currentPrice is at most
\* err micro-units away from its double, the close of the pass is at most
\* Grown(err, volatility) away from its double: the factor of lines 538-542
\* is below 1 + volatility / 1000 and the pass cuts off less than 3.  The
\* high and the low, one more factor of that size and two more cuts (lines
\* 543-544), are at most Grown(Grown(err, volatility), volatility) away.
\* The distance grows with every pass; nothing bounds it but the length of
\* the series.
Grown(err, volatility) == err + (err * volatility) \div 1000 + 4

\* close = Math.max(currentPrice + change, currentPrice * 0.5) of one pass
\* (lines 535-542)
Close(currentPrice, base, volatility, d) ==
    LET trend == (base - currentPrice) \div 1000
        k == 2 * d.change - RandDen
        swing == Scaled(currentPrice, Abs(k), volatility)
        change == (IF k >= 0 THEN swing ELSE 0 - swing) + trend
    IN  Max(currentPrice + change, currentPrice \div 2)

\* the candles that one pass of the loop body can push; toFixed is
\* monotone, so the stored low is at most the stored open and close, and the
\* stored high at least
Candles(currentPrice, base, volatility, d, t, err) ==
    LET open == currentPrice
        close == Close(currentPrice, base, volatility, d)
        high == Max(open, close) + Scaled(Max(open, close), d.high, volatility)
        low == Min(open, close) - Scaled(Min(open, close), d.low, volatility)
        far == Grown(Grown(err, volatility), volatility)
        rounded == [o : Round2Near(open, err), h : Round2Near(high, far),
                    l : Round2Near(low, far), c : Round2Near(close, Grown(err, volatility))]
    IN  { [date |-> IsoDate(t),
           timestamp |-> t,
           open |-> r.o,
           high |-> r.h,
           low |-> r.l,
           close |-> r.c,
           volume |-> MulDiv(10000000, d.volume, RandDen) + 500000] :
          r \in {x \in rounded : x.l <= Min(x.o, x.c) /\ Max(x.o, x.c) <= x.h} }

\* currentPrice = close (line 557): the price carried into the next pass
NextPriceMut(currentPrice, base, volatility, d) == currentPrice
NextPrice(currentPrice, base, volatility, d) == Close(currentPrice, base, volatility, d)

\* the loop for (let i = days; i >= 0; i--), from pass i on.  The open of a
\* pass is toFixed(2) of the price carried into it: where that price is the
\* close of the pass before, the two are the rounding of one double and the
\* stored open is the stored close of the candle pushed before it.
RECURSIVE CandleSeries(_, _, _, _, _, _, _, _)
CandleSeries(i, currentPrice, base, volatility, d, now, tz, err) ==
    IF i < 0 THEN {<<>>}
    ELSE IF IsWeekend(now - i * DAY, tz)
    THEN CandleSeries(i - 1, currentPrice, base, volatility, d, now, tz, err)
    ELSE LET next == NextPrice(currentPrice, base, volatility, d)
             oneDouble == next = Close(currentPrice, base, volatility, d)
             rests == CandleSeries(i - 1, next, base, volatility, d, now, tz, Grown(err, volatility))
         IN  UNION { { <<c>> \o rest :
                         rest \in {x \in rests : (oneDouble /\ x # <<>>) => x[1].open = c.close} } :
                     c \in Candles(currentPrice, base, volatility, d, now - i * DAY, err) }

\* currentPrice = basePrice * (0.7 + Math.random() * 0.4), less than 1
\* micro-unit away from the double
generateHistoricalData(symbol, days, d, now, tz) ==
    UNION { CandleSeries(days, currentPrice, BasePrice(symbol), getVolatility(symbol), d, now, tz, 1) :
            currentPrice \in {AllStocks(symbol).basePrice * 700000
                                 + MulDiv(AllStocks(symbol).basePrice * 400000, d.start, RandDen)} }

\* every priceHistory that one run of initializeSimulatedPrices can leave
RECURSIVE HistoriesUpTo(_, _, _, _, _, _)
HistoriesUpTo(n, order, days, draws, now, tz) ==
    IF n = 0 THEN {<<>>}
    ELSE { [s \in DOMAIN f \cup {order[n]} |-> IF s = order[n] THEN h ELSE f[s]] :
             f \in HistoriesUpTo(n - 1, order, days, draws, now, tz),
             h \in UNION { generateHistoricalData(order[n], days, d, now, tz) :
                              d \in draws } }

InitHistories(order, days, draws, now, tz) ==
    HistoriesUpTo(Len(order), order, days, draws, now, tz)

(***************************************************************************)
(* updateSimulatedPrices (server.js:563-620).  ctx holds the constants     *)
(* read from the settings before the loop (lines 573-575):                 *)
(* speedMultiplier in hundredths, tickSize in micro-units, maxTicks.       *)
(***************************************************************************)
TickContext(settings) ==
    [speedMultiplier |-> settings.speed * settings.volatilityMultiplier,
     tickSize |-> settings.priceTickSize,
     maxTicks |-> settings.maxTickMultiplier]

\* movementChance = 0.7 + (getVolatility(symbol) * speedMultiplier) * 5, in
\* units of 1e-5.  The double of line 589 is less than 1e-14 away from this
\* sum.  A draw k/RandDen is a multiple of 1/1024 and the sum a multiple of
\* 1/20000, so the two are equal or more than 1e-6 apart; they are equal
\* only at multiples of 1/32, and there the double sum below 1 is that
\* number itself.  The comparison of the doubles is the comparison of the
\* numbers.
movementChance(symbol, ctx) == 70000 + 5 * getVolatility(symbol) * ctx.speedMultiplier

\* the loop body returns early: Math.random() > movementChance, both sides
\* in units of 1/(32 * 100000)
SkippedMut(symbol, ctx, d) ==
    d.movement * ((32 * 100000) \div RandDen) >= 32 * movementChance(symbol, ctx)
Skipped(symbol, ctx, d) ==
    d.movement * ((32 * 100000) \div RandDen) > 32 * movementChance(symbol, ctx)

\* Math.floor(Math.random() * maxTicks) + 1
NumTicksMut(ctx, d) == (d.numTicks * ctx.maxTicks) \div RandDen + 2
NumTicks(ctx, d) == (d.numTicks * ctx.maxTicks) \div RandDen + 1

\* change: +tickValue when directionBias = (r - 0.5) * 2 > 0, else -tickValue
PriceDelta(ctx, d) ==
    LET tickValue == ctx.tickSize * NumTicks(ctx, d)
    IN  IF 2 * d.direction - RandDen > 0 THEN tickValue ELSE 0 - tickValue

NewPriceMut(price, change) == price + change
NewPrice(price, change) == Max(price + change, price \div 2)

\* the spread ...stockData carries previousClose over
KeptPreviousCloseMut(stockData) == stockData.price
KeptPreviousClose(stockData) == stockData.previousClose

\* volumeIncrease = Math.floor(Math.random() * 50000)
VolumeIncreaseMut(d) == MulDiv(50000, d.volume + 1, RandDen)
VolumeIncrease(d) == MulDiv(50000, d.volume, RandDen)

\* parseFloat((newPrice * 0.9995).toFixed(2)) of the tick
TickBidMut(newPrice) == Ask(newPrice)
TickBid(newPrice) == Bid(newPrice)

\* stockData.high and stockData.low are the unrounded doubles of
\* initializeSimulatedPrices, less than 2 micro-units away, until the first
\* move of the symbol stores them rounded
MovedQuotes(stockData, ctx, d, now) ==
    LET newPrice == NewPrice(stockData.price, PriceDelta(ctx, d))
        high == Max(stockData.high, newPrice)
        low == Min(stockData.low, newPrice)
        priceChange == newPrice - stockData.previousClose
    IN  { [stockData EXCEPT
             !.previousClose = KeptPreviousClose(stockData),
             !.price = Round2(newPrice),
             !.high = h,
             !.low = l,
             !.change = chg,
             !.changePercent = pct,
             !.volume = stockData.volume + VolumeIncrease(d),
             !.bid = b,
             !.ask = a,
             !.bidSize = MulDiv(1000, d.bidSize, RandDen) + 100,
             !.askSize = MulDiv(1000, d.askSize, RandDen) + 100,
             !.lastUpdated = now] :
          h \in IF high = newPrice THEN {Round2(high)} ELSE Round2Near(high, 2),
          l \in IF low = newPrice THEN {Round2(low)} ELSE Round2Near(low, 2),
          chg \in Round2Any(priceChange),
          pct \in PercentOf(priceChange, stockData.previousClose),
          b \in TickBid(newPrice),
          a \in Ask(newPrice) }

\* the records the loop body can leave for one symbol
TickQuotes(stockData, symbol, ctx, d, now) ==
    IF Skipped(symbol, ctx, d) THEN {stockData}
    ELSE MovedQuotes(stockData, ctx, d, now)

(***************************************************************************)
(* Timer (server.js:625-632).  A period is the exact quotient              *)
(* num/den of milliseconds, in lowest terms.                               *)
(***************************************************************************)
RECURSIVE GCD(_, _)
GCD(a, b) == IF b = 0 THEN a ELSE GCD(b, a % b)

Ratio(n, d) == [num |-> n \div GCD(n, d), den |-> d \div GCD(n, d)]

\* Math.max(500, settings.updateInterval / settings.speed), speed in tenths
IntervalMut(settings) == Ratio(settings.updateInterval, 1)
Interval(settings) ==
    IF settings.updateInterval * 10 >= 500 * settings.speed
    THEN Ratio(settings.updateInterval * 10, settings.speed)
    ELSE Ratio(500, 1)

\* if (updateIntervalId) clearInterval(updateIntervalId)
ClearedMut(armed, id) == armed
Cleared(armed, id) ==
    IF id # 0 THEN [h \in DOMAIN armed \ {id} |-> armed[h]] ELSE armed

\* setInterval(updateSimulatedPrices, interval) with the fresh handle h
ArmedMut(armed, h, interval) == armed
Armed(armed, h, interval) ==
    [x \in DOMAIN armed \cup {h} |-> IF x = h THEN interval ELSE armed[x]]

startPriceUpdates(settings) ==
    /\ timers' = Armed(Cleared(timers, updateIntervalId), nextTimerId, Interval(settings))
    /\ updateIntervalId' = nextTimerId
    /\ nextTimerId' = nextTimerId + 1

(***************************************************************************)
(* PUT /api/simulation/settings (server.js:685-718).  A body gives each    *)
(* field as {} (undefined) or {value}; speed, volatilityMultiplier and     *)
(* maxTickMultiplier values are in tenths, priceTickSize in micro-units.   *)
(***************************************************************************)
validTickSizesMut == {1 * CENT, 3 * CENT, 5 * CENT, 10 * CENT, 25 * CENT, 50 * CENT, 100 * CENT}
validTickSizes == {1 * CENT, 5 * CENT, 10 * CENT, 25 * CENT, 50 * CENT, 100 * CENT}

Val(opt) == CHOOSE v \in opt : TRUE

EmptyBody ==
    [speed |-> {}, volatilityMultiplier |-> {}, alwaysOpen |-> {}, updateInterval |-> {},
     priceTickSize |-> {}, maxTickMultiplier |-> {}]

Bodies ==
    { EmptyBody,
      [EmptyBody EXCEPT !.speed = {20}],
      [EmptyBody EXCEPT !.priceTickSize = {100 * CENT}, !.maxTickMultiplier = {100}],
      [EmptyBody EXCEPT !.alwaysOpen = {JSBool(FALSE)}],
      [EmptyBody EXCEPT !.updateInterval = {500}, !.speed = {100}],
      [EmptyBody EXCEPT !.priceTickSize = {3 * CENT}, !.updateInterval = {499}, !.speed = {110},
                        !.volatilityMultiplier = {50}, !.maxTickMultiplier = {25},
                        !.alwaysOpen = {JSString(3)}] }

\* payloads at and beyond every bound of lines 688-706
BoundaryBodies ==
    { [EmptyBody EXCEPT !.speed = {0}],
      [EmptyBody EXCEPT !.speed = {0 - 10}],
      [EmptyBody EXCEPT !.speed = {1}],
      [EmptyBody EXCEPT !.speed = {110}, !.updateInterval = {10000}],
      [EmptyBody EXCEPT !.speed = {101}],
      [EmptyBody EXCEPT !.volatilityMultiplier = {0}, !.maxTickMultiplier = {95}],
      [EmptyBody EXCEPT !.volatilityMultiplier = {51}, !.priceTickSize = {1 * CENT}],
      [EmptyBody EXCEPT !.updateInterval = {499}, !.speed = {100}],
      [EmptyBody EXCEPT !.updateInterval = {10001}, !.volatilityMultiplier = {1}],
      [EmptyBody EXCEPT !.priceTickSize = {3 * CENT}, !.maxTickMultiplier = {10}],
      [EmptyBody EXCEPT !.priceTickSize = {0}],
      [EmptyBody EXCEPT !.maxTickMultiplier = {110}, !.priceTickSize = {25 * CENT}],
      [EmptyBody EXCEPT !.maxTickMultiplier = {9}],
      [EmptyBody EXCEPT !.maxTickMultiplier = {101}] }

ApplySettingsMut(settings, body) ==
    LET all == [settings EXCEPT
                  !.speed = IF body.speed # {} THEN Val(body.speed) ELSE @,
                  !.volatilityMultiplier =
                      IF body.volatilityMultiplier # {} THEN Val(body.volatilityMultiplier) ELSE @,
                  !.alwaysOpen = IF body.alwaysOpen # {} THEN Val(body.alwaysOpen) ELSE @,
                  !.updateInterval =
                      IF body.updateInterval # {} THEN Val(body.updateInterval) ELSE @,
                  !.priceTickSize = IF body.priceTickSize # {} THEN Val(body.priceTickSize) ELSE @,
                  !.maxTickMultiplier =
                      IF body.maxTickMultiplier # {} THEN Val(body.maxTickMultiplier) \div 10 ELSE @]
        valid == /\ all.speed > 0 /\ all.speed <= 100
                 /\ all.volatilityMultiplier > 0 /\ all.volatilityMultiplier <= 50
                 /\ all.updateInterval >= 500 /\ all.updateInterval <= 10000
                 /\ all.priceTickSize \in {1 * CENT, 5 * CENT, 10 * CENT, 25 * CENT, 50 * CENT, 100 * CENT}
                 /\ all.maxTickMultiplier >= 1 /\ all.maxTickMultiplier <= 10
                 /\ (body.maxTickMultiplier # {} => Val(body.maxTickMultiplier) <= 100)
    IN  IF valid THEN all ELSE settings
ApplySettings(settings, body) ==
    LET s1 == IF body.speed # {} /\ Val(body.speed) > 0 /\ Val(body.speed) <= 100
              THEN [settings EXCEPT !.speed = Val(body.speed)] ELSE settings
        s2 == IF body.volatilityMultiplier # {} /\ Val(body.volatilityMultiplier) > 0
                   /\ Val(body.volatilityMultiplier) <= 50
              THEN [s1 EXCEPT !.volatilityMultiplier = Val(body.volatilityMultiplier)] ELSE s1
        s3 == IF body.alwaysOpen # {}
              THEN [s2 EXCEPT !.alwaysOpen = Val(body.alwaysOpen)] ELSE s2
        s4 == IF body.updateInterval # {} /\ Val(body.updateInterval) >= 500
                   /\ Val(body.updateInterval) <= 10000
              THEN [s3 EXCEPT !.updateInterval = Val(body.updateInterval)] ELSE s3
        s5 == IF body.priceTickSize # {} /\ Val(body.priceTickSize) \in validTickSizes
              THEN [s4 EXCEPT !.priceTickSize = Val(body.priceTickSize)] ELSE s4
        s6 == IF body.maxTickMultiplier # {} /\ Val(body.maxTickMultiplier) >= 10
                   /\ Val(body.maxTickMultiplier) <= 100
              THEN [s5 EXCEPT !.maxTickMultiplier = Val(body.maxTickMultiplier) \div 10] ELSE s5
    IN  s6

(***************************************************************************)
(* The event loop runs one callback at a time: updateSimulatedPrices has   *)
(* no await, so no other callback is dispatched while it runs.             *)
(***************************************************************************)
Idle ==
    [pos |-> 0,
     ctx |-> [speedMultiplier |-> 0, tickSize |-> 0, maxTicks |-> 0],
     now |-> 0,
     draws |-> [numTicks |-> 0, direction |-> 0, movement |-> 0, volume |-> 0, bidSize |-> 0, askSize |-> 0]]

\* the value of req.body.symbols: its JavaScript type and its elements (the
\* characters of a string, the elements of an array)
Undefined == [type |-> "undefined", items |-> <<>>]

\* the response of a handler, with the request it answers (res.req):
\* param is req.params.symbol, symbols is req.body.symbols
NoResponse ==
    [op |-> "none", status |-> 0, success |-> FALSE, error |-> "", quotes |-> <<>>,
     settings |-> <<>>, candles |-> <<>>, symbol |-> "", range |-> "",
     param |-> "", symbols |-> Undefined, count |-> 0, data |-> <<>>]

\* res.json({success: true, ...}) and res.status(code).json({success: false, error})
Ok(op) == [NoResponse EXCEPT !.op = op, !.status = 200, !.success = TRUE]
Failed(op, code, error) == [NoResponse EXCEPT !.op = op, !.status = code, !.error = error]

DispatchableMut == TRUE
Dispatchable == tick.pos = 0

\* a request arrives only in the first instants of a behaviour
Arrives == clock <= limits.lead

\* the bodies of the PUT requests of the behaviour
PutBodies ==
    CASE limits.bodies = "Bodies" -> Bodies
      [] limits.bodies = "Bodies, speed 0.5" -> Bodies \cup {[EmptyBody EXCEPT !.speed = {5}]}
      [] limits.bodies = "BoundaryBodies" -> Bodies \cup BoundaryBodies
      [] OTHER -> {EmptyBody}

PutSettings(body) ==
    /\ Dispatchable
    /\ Arrives
    /\ nextTimerId - 2 < limits.puts
    /\ simulationSettings' = ApplySettings(simulationSettings, body)
    /\ startPriceUpdates(simulationSettings')
    /\ response' = [Ok("PUT /api/simulation/settings") EXCEPT
                       !.settings = <<simulationSettings'>>]
    /\ UNCHANGED <<simulatedPrices, priceHistory, storeOrder, clock, wall, tick, nResets, limits, live>>

\* POST /api/simulation/reset (server.js:721-727)
ResetMut ==
    /\ Dispatchable
    /\ Arrives
    /\ nResets < limits.resets
    /\ simulatedPrices' \in InitStores(storeOrder, clock)
    /\ nResets' = nResets + 1
    /\ simulationSettings' = DefaultSettings
    /\ startPriceUpdates(simulationSettings')
    /\ response' = Ok("POST /api/simulation/reset")
    /\ wall' \in Later
    /\ priceHistory' \in InitHistories(storeOrder, limits.days, SynthesisDraws,
                                       wall' + clock, limits.tz)
    /\ UNCHANGED <<storeOrder, clock, tick, limits, live>>
Reset ==
    /\ Dispatchable
    /\ Arrives
    /\ nResets < limits.resets
    /\ simulatedPrices' \in InitStores(storeOrder, clock)
    /\ nResets' = nResets + 1
    /\ response' = Ok("POST /api/simulation/reset")
    /\ wall' \in Later
    /\ priceHistory' \in InitHistories(storeOrder, limits.days, SynthesisDraws,
                                       wall' + clock, limits.tz)
    /\ UNCHANGED <<simulationSettings, storeOrder, updateIntervalId, timers, nextTimerId,
                   clock, tick, limits, live>>

(***************************************************************************)
(* GET /api/stocks/:symbol (server.js:778-787).  String functions are      *)
(* tabulated on the request parameters of the model.                       *)
(***************************************************************************)
Params == {"idea.ns", "^CNXREALTY", "NOPE"}
LookupParams ==
    Params \cup {"IDEA", "idea", "IDEA.NS", "Idea.Ns", "nope", "^cnxrealty", "^CNXREALTY.NS"}

toUpperCaseMut(str) == str
toUpperCase(str) ==
    CASE str = "idea.ns" -> "IDEA.NS"
      [] str = "Idea.Ns" -> "IDEA.NS"
      [] str = "idea" -> "IDEA"
      [] str = "nope" -> "NOPE"
      [] str = "^cnxrealty" -> "^CNXREALTY"
      [] OTHER -> str

includesNS(str) == str \in {"IDEA.NS", "^CNXREALTY.NS"}

\* `${str}.NS`
appendNS(str) ==
    CASE str = "IDEA" -> "IDEA.NS"
      [] str = "idea" -> "idea.NS"
      [] str = "^CNXREALTY" -> "^CNXREALTY.NS"
      [] str = "^cnxrealty" -> "^cnxrealty.NS"
      [] str = "NOPE" -> "NOPE.NS"
      [] str = "nope" -> "nope.NS"
      [] str = "" -> ".NS"
      [] OTHER -> str

\* simulatedPrices.get(key), <<>> for undefined
MapGet(key) == IF key \in DOMAIN simulatedPrices THEN <<simulatedPrices[key]>> ELSE <<>>

StockLookupMut(param) ==
    LET symbol == toUpperCase(param)
        searchSymbol == IF includesNS(symbol) THEN symbol ELSE appendNS(symbol)
        found == IF MapGet(searchSymbol) # <<>> THEN MapGet(searchSymbol) ELSE MapGet(symbol)
    IN  IF found = <<>> THEN <<>> ELSE <<[found[1] EXCEPT !.volume = 0]>>
StockLookup(param) ==
    LET symbol == toUpperCase(param)
        searchSymbol == IF includesNS(symbol) THEN symbol ELSE appendNS(symbol)
    IN  IF MapGet(searchSymbol) # <<>> THEN MapGet(searchSymbol) ELSE MapGet(symbol)

\* the resolution of server-realtime.js (lines 451-454, 475-478): the symbol
\* handed to fetchRealTimeQuote
includesDot(str) == str \in {"IDEA.NS", "^CNXREALTY.NS"}
startsWithCaret(str) == str \in {"^CNXREALTY", "^CNXREALTY.NS"}
RealtimeSymbol(param) ==
    LET symbol == toUpperCase(param)
    IN  IF ~includesDot(symbol) /\ ~startsWithCaret(symbol) THEN appendNS(symbol) ELSE symbol

GetStock(param) ==
    /\ Dispatchable
    /\ Arrives
    /\ response' = IF StockLookup(param) = <<>>
                   THEN [Failed("GET /api/stocks/:symbol", 404, "Stock not found")
                            EXCEPT !.param = param]
                   ELSE [Ok("GET /api/stocks/:symbol") EXCEPT
                            !.quotes = StockLookup(param), !.param = param]
    /\ UNCHANGED <<simulationSettings, simulatedPrices, priceHistory, storeOrder,
                   updateIntervalId, timers, nextTimerId, clock, wall, tick, nResets, limits, live>>

(***************************************************************************)
(* POST /api/stocks/batch (server.js:789-803) with a body whose symbols is *)
(* missing, null, a string, an object or an array of strings.              *)
(***************************************************************************)
StringOf(chars) == [type |-> "string", items |-> chars]
ArrayOf(symbols) == [type |-> "array", items |-> symbols]

BatchBodies ==
    { Undefined,
      [type |-> "null", items |-> <<>>],
      [type |-> "object", items |-> <<>>],
      StringOf(<<>>),
      StringOf(<<"I", "D", "E", "A">>),
      ArrayOf(<<>>),
      ArrayOf(<<"NOPE">>),
      ArrayOf(<<"", "nope">>),
      ArrayOf(<<"idea">>),
      ArrayOf(<<"^cnxrealty", "NOPE", "idea">>),
      ArrayOf(<<"IDEA.NS", "^CNXREALTY">>),
      ArrayOf(<<"Idea.Ns", "^CNXREALTY.NS", "IDEA", "idea.ns">>) }

\* the bodies of the batch requests of the behaviour
BatchRequests == IF limits.batches = "BatchBodies" THEN BatchBodies ELSE {Undefined}

\* !symbols
Falsy(symbols) ==
    \/ symbols.type \in {"undefined", "null"}
    \/ symbols.type = "string" /\ symbols.items = <<>>

\* Array.isArray(symbols)
isArray(symbols) == symbols.type = "array"

\* the callback of symbols.map (lines 795-800), <<>> for undefined
BatchLookupMut(symbol) ==
    LET searchSymbol == IF includesNS(toUpperCase(symbol))
                        THEN toUpperCase(symbol)
                        ELSE appendNS(toUpperCase(symbol))
    IN  MapGet(searchSymbol)
BatchLookup(symbol) ==
    LET searchSymbol == IF includesNS(toUpperCase(symbol))
                        THEN toUpperCase(symbol)
                        ELSE appendNS(toUpperCase(symbol))
    IN  IF MapGet(searchSymbol) # <<>> THEN MapGet(searchSymbol)
                                       ELSE MapGet(toUpperCase(symbol))

\* symbols.map(...).filter(Boolean)
RECURSIVE BatchResults(_)
BatchResults(symbols) ==
    IF symbols = <<>> THEN <<>>
    ELSE BatchLookup(Head(symbols)) \o BatchResults(Tail(symbols))

Batch(symbols) ==
    /\ Dispatchable
    /\ Arrives
    /\ response' = IF Falsy(symbols) \/ ~isArray(symbols)
                   THEN [Failed("POST /api/stocks/batch", 400, "symbols array required")
                            EXCEPT !.symbols = symbols]
                   ELSE [Ok("POST /api/stocks/batch") EXCEPT
                            !.quotes = BatchResults(symbols.items), !.symbols = symbols]
    /\ UNCHANGED <<simulationSettings, simulatedPrices, priceHistory, storeOrder,
                   updateIntervalId, timers, nextTimerId, clock, wall, tick, nResets, limits, live>>

(***************************************************************************)
(* GET /api/stocks/:symbol/history (server.js:805-852).  A query without   *)
(* range has the range "" here.                                            *)
(***************************************************************************)
\* const { range = '1y' } = req.query
RangeOf(query) == IF query = "" THEN "1y" ELSE query

\* ranges[range] || 365, as <<days>>; <<>> when range names a property that
\* the object literal inherits, a function or an object, with which the
\* cutoff is NaN
DaysToInclude(range) ==
    CASE range = "1d" -> <<1>>
      [] range = "5d" -> <<5>>
      [] range = "1mo" -> <<30>>
      [] range = "3mo" -> <<90>>
      [] range = "6mo" -> <<180>>
      [] range = "1y" -> <<365>>
      [] range \in {"constructor", "__proto__", "toString", "toLocaleString", "valueOf",
                    "hasOwnProperty", "isPrototypeOf", "propertyIsEnumerable",
                    "__defineGetter__", "__defineSetter__", "__lookupGetter__",
                    "__lookupSetter__"} -> <<>>
      [] OTHER -> <<365>>

\* priceHistory.get(key), <<>> for undefined, <<history>> for an array
HistoryGet(key) == IF key \in DOMAIN priceHistory THEN <<priceHistory[key]>> ELSE <<>>

\* the key under which priceHistory.get(searchSymbol) || priceHistory.get(symbol)
\* finds an array, as <<key>>, or <<>>
HistoryKey(param) ==
    LET symbol == toUpperCase(param)
        searchSymbol == IF includesNS(symbol) THEN symbol ELSE appendNS(symbol)
    IN  IF HistoryGet(searchSymbol) # <<>> THEN <<searchSymbol>>
        ELSE IF HistoryGet(symbol) # <<>> THEN <<symbol>>
        ELSE <<>>

\* history.filter(candle => candle.timestamp >= cutoffDate), cutoffDate as
\* <<number>>, <<>> for NaN
RECURSIVE Filtered(_, _)
Filtered(history, cutoffDate) ==
    IF history = <<>> \/ cutoffDate = <<>> THEN <<>>
    ELSE IF history[1].timestamp >= cutoffDate[1]
    THEN <<history[1]>> \o Filtered(Tail(history), cutoffDate)
    ELSE Filtered(Tail(history), cutoffDate)

\* a || b on numbers
OrElse(a, b) == IF a # 0 THEN a ELSE b

\* lines 822-849: the last candle overlaid, or a candle for today pushed
Overlaid(lastCandle, currentStock) ==
    [lastCandle EXCEPT !.close = currentStock.price,
                       !.high = Max(lastCandle.high, currentStock.price),
                       !.low = Min(lastCandle.low, currentStock.price),
                       !.volume = OrElse(currentStock.volume, lastCandle.volume)]

TodayCandle(currentStock, now) ==
    [date |-> IsoDate(now),
     timestamp |-> now,
     open |-> OrElse(currentStock.previousClose, currentStock.price),
     high |-> OrElse(currentStock.high, currentStock.price),
     low |-> OrElse(currentStock.low, currentStock.price),
     close |-> currentStock.price,
     volume |-> OrElse(currentStock.volume, 0)]

Served(history, stock, now) ==
    IF stock # <<>> /\ Len(history) > 0
    THEN IF history[Len(history)].date = IsoDate(now)
         THEN [history EXCEPT ![Len(history)] = Overlaid(history[Len(history)], stock[1])]
         ELSE Append(history, TodayCandle(stock[1], now))
    ELSE history

\* what the array held by priceHistory is after the handler wrote to the
\* array it serves: filter returned a new array and the overlay a new object
StoredAfterMut(stored, served) == served
StoredAfter(stored, served) == stored

GetHistory(param, query) ==
    /\ Dispatchable
    /\ Arrives
    /\ wall' \in Later
    /\ LET found == HistoryKey(param)
           symbol == toUpperCase(param)
           searchSymbol == IF includesNS(symbol) THEN symbol ELSE appendNS(symbol)
       IN  IF found = <<>>
           THEN /\ response' = Failed("GET /api/stocks/:symbol/history", 404,
                                      "Stock history not found")
                /\ priceHistory' = priceHistory
           ELSE LET now == wall' + clock
                    daysToInclude == DaysToInclude(RangeOf(query))
                    cutoffDate == IF daysToInclude = <<>> THEN <<>>
                                  ELSE <<now - daysToInclude[1] * DAY>>
                    history == Served(Filtered(priceHistory[found[1]], cutoffDate),
                                      StockLookup(param), now)
                IN  /\ response' = [Ok("GET /api/stocks/:symbol/history") EXCEPT
                                       !.candles = history, !.symbol = searchSymbol,
                                       !.range = RangeOf(query)]
                    /\ priceHistory' = [priceHistory EXCEPT ![found[1]] = StoredAfter(@, history)]
    /\ UNCHANGED <<simulationSettings, simulatedPrices, storeOrder, updateIntervalId, timers,
                   nextTimerId, clock, tick, nResets, limits, live>>

(***************************************************************************)
(* The read endpoints over the whole store (server.js:729-776, 854-969).   *)
(* A request is its route and its one argument: the :symbol of the depth   *)
(* route, the q of the search route.                                       *)
(***************************************************************************)
ReadRequests ==
    {[route |-> r, arg |-> ""] :
        r \in {"GET /api/health", "GET /api/market/status", "GET /api/stocks",
               "GET /api/indices", "GET /api/market/gainers", "GET /api/market/losers",
               "GET /api/market/active", "GET /api/market/sectors",
               "GET /api/market/overview"}}
    \cup {[route |-> "GET /api/stocks/:symbol/depth", arg |-> a] : a \in {"idea", "NOPE"}}
    \cup {[route |-> "GET /api/search", arg |-> q] : q \in {"", "bank", "ns", "zzz"}}

\* the read requests of the behaviour
ReadRoutes ==
    IF limits.reads = "ReadRequests" THEN ReadRequests
    ELSE {req \in ReadRequests : req.route = limits.reads}

\* Array.from(simulatedPrices.values()): a new array in the insertion order of the Map
Values == [i \in DOMAIN storeOrder |-> simulatedPrices[storeOrder[i]]]

\* the filter callbacks s => s.sector !== 'Index' and s => s.sector === 'Index'
NonIndexMut(s) == TRUE
NonIndex(s) == s.sector # "Index"
IsIndex(s) == s.sector = "Index"

\* array.slice(0, n)
sliceMut(array, n) == SubSeq(array, 1, Min(Len(array), n + 1))
slice(array, n) == SubSeq(array, 1, Min(Len(array), n))

\* array.reduce((sum, s) => sum + s[field], 0)
RECURSIVE reduce(_, _)
reduce(array, field) ==
    IF array = <<>> THEN 0
    ELSE reduce(SubSeq(array, 1, Len(array) - 1), field) + array[Len(array)][field]

\* the comparators (a, b) => b[field] - a[field] and (a, b) => a[field] - b[field]
Compare(a, b, field, descending) ==
    IF descending THEN b[field] - a[field] ELSE a[field] - b[field]

\* array.sort(comparator): a stable sort, equal elements keep their order, so
\* an element lands after the elements that compare before it and the equal
\* elements that stood before it
sort(array, field, descending) ==
    LET Rank(i) == Cardinality({j \in DOMAIN array :
                       \/ Compare(array[j], array[i], field, descending) < 0
                       \/ Compare(array[j], array[i], field, descending) = 0 /\ j < i})
    IN  [k \in DOMAIN array |-> array[CHOOSE i \in DOMAIN array : Rank(i) = k - 1]]

\* the ladder of the depth route, levels 1..n on one side of the price:
\* parseFloat((stockData.price * (1 -/+ 0.0005 * (i + 1))).toFixed(2)), and
\* the quantity and the orders of a level from Math.random() draws r
RECURSIVE Ladders(_, _, _, _)
Ladders(n, price, side, r) ==
    IF n = 0 THEN {<<>>}
    ELSE { Append(levels, [price |-> p, quantity |-> MulDiv(5000, r, RandDen) + 100,
                           orders |-> MulDiv(20, r, RandDen) + 1]) :
              levels \in Ladders(n - 1, price, side, r),
              p \in Round2Any(MulDiv(price, 2000 + side * n, 2000)) }

\* stock.symbol, stock.name or stock.sector, in lower case, includes the query
SearchMatches(query) ==
    CASE query = "bank" -> {"HDFCBANK.NS", "SBIN.NS", "PNB.NS", "YESBANK.NS"}
      [] query = "ns" -> StockSymbols
      [] OTHER -> {}

\* the rows of the sectors route for the sectors names[1..n], before the sort
RECURSIVE SectorRows(_, _)
SectorRows(n, names) ==
    IF n = 0 THEN {<<>>}
    ELSE LET stocks == SelectSeq(Values, LAMBDA s : s.sector = names[n])
         IN  { Append(rows, [name |-> names[n], avgChange |-> avg, stockCount |-> Len(stocks),
                             topStock |-> sort(stocks, "changePercent", TRUE)[1].symbol]) :
                  rows \in SectorRows(n - 1, names),
                  avg \in RoundDivAny(reduce(stocks, "changePercent"), Len(stocks)) }

\* the sectors of the store in the order of their first stock (the keys of sectorMap)
SectorNames ==
    LET stocks == SelectSeq(Values, NonIndex)
        firsts == SelectSeq([i \in DOMAIN stocks |-> i],
                            LAMBDA i : \A j \in 1..(i - 1) : stocks[j].sector # stocks[i].sector)
    IN  [k \in DOMAIN firsts |-> stocks[firsts[k]].sector]

\* the data of the overview route
Overview(now) ==
    LET stocks == SelectSeq(Values, NonIndex)
        gainers == sort(stocks, "changePercent", TRUE)
        losers == sort(gainers, "changePercent", FALSE)
    IN  [indices |-> SelectSeq(Values, IsIndex),
         marketBreadth |-> [advancing |-> Len(SelectSeq(stocks, LAMBDA s : s.changePercent > 0)),
                            declining |-> Len(SelectSeq(stocks, LAMBDA s : s.changePercent < 0)),
                            unchanged |-> Len(SelectSeq(stocks, LAMBDA s : s.changePercent = 0)),
                            total |-> Len(stocks)],
         totalVolume |-> reduce(stocks, "volume"),
         topGainer |-> slice(gainers, 1),
         topLoser |-> slice(losers, 1),
         marketStatus |-> isMarketOpen(simulationSettings, now)]

\* the responses a read request can get when new Date() is now
Responses(req, now) ==
    LET stocks == SelectSeq(Values, NonIndex)
        ok == Ok(req.route)
    IN  CASE req.route = "GET /api/health" ->
               {[NoResponse EXCEPT !.op = req.route, !.status = 200,
                   !.settings = <<simulationSettings>>,
                   !.data = <<[status |-> "ok",
                               stocksAvailable |-> Cardinality(DOMAIN simulatedPrices),
                               marketStatus |-> isMarketOpen(simulationSettings, now)]>>]}
          [] req.route = "GET /api/market/status" ->
               {[ok EXCEPT !.settings = <<simulationSettings>>,
                   !.data = <<[marketStatus |-> isMarketOpen(simulationSettings, now),
                               serverTime |-> now,
                               tradingHours |-> IF Truthy(simulationSettings.alwaysOpen)
                                                THEN "24/7 Practice Mode"
                                                ELSE "9:15 AM - 3:30 PM IST"]>>]}
          [] req.route = "GET /api/stocks" ->
               {[ok EXCEPT !.quotes = stocks, !.count = Len(stocks),
                   !.data = <<isMarketOpen(simulationSettings, now)>>]}
          [] req.route = "GET /api/indices" ->
               {[ok EXCEPT !.quotes = SelectSeq(Values, IsIndex)]}
          [] req.route = "GET /api/market/gainers" ->
               {[ok EXCEPT !.quotes = slice(sort(stocks, "changePercent", TRUE), 10)]}
          [] req.route = "GET /api/market/losers" ->
               {[ok EXCEPT !.quotes = slice(sort(stocks, "changePercent", FALSE), 10)]}
          [] req.route = "GET /api/market/active" ->
               {[ok EXCEPT !.quotes = slice(sort(stocks, "volume", TRUE), 10)]}
          [] req.route = "GET /api/market/sectors" ->
               {[ok EXCEPT !.data = sort(rows, "avgChange", TRUE)] :
                   rows \in SectorRows(Len(SectorNames), SectorNames)}
          [] req.route = "GET /api/market/overview" ->
               {[ok EXCEPT !.data = <<Overview(now)>>]}
          [] req.route = "GET /api/search" ->
               {[ok EXCEPT !.param = req.arg,
                   !.quotes = slice(SelectSeq(Values,
                                 LAMBDA s : s.symbol \in SearchMatches(req.arg)), 10)]}
          [] req.route = "GET /api/stocks/:symbol/depth" ->
               LET symbol == toUpperCase(req.arg)
                   searchSymbol == IF includesNS(symbol) THEN symbol ELSE appendNS(symbol)
                   stockData == StockLookup(req.arg)
               IN  IF stockData = <<>>
                   THEN {[Failed(req.route, 404, "Stock not found") EXCEPT !.param = req.arg]}
                   ELSE UNION { {[ok EXCEPT !.param = req.arg, !.symbol = searchSymbol,
                                    !.data = <<[lastPrice |-> stockData[1].price,
                                                bids |-> bids, asks |-> asks,
                                                totalBidQty |-> reduce(bids, "quantity"),
                                                totalAskQty |-> reduce(asks, "quantity")]>>] :
                                    bids \in Ladders(5, stockData[1].price, -1, r),
                                    asks \in Ladders(5, stockData[1].price, 1, r)}
                                : r \in {0, RandDen - 1} }

\* the insertion order of the Map after the handler: filter, slice and
\* Array.from return new arrays, and sort orders the new array in place
OrderAfterMut(req) ==
    IF req.route = "GET /api/market/gainers"
    THEN [i \in DOMAIN storeOrder |-> sort(Values, "changePercent", TRUE)[i].symbol]
    ELSE storeOrder
OrderAfter(req) == storeOrder

\* health, status, stocks and overview read Date (isMarketOpen, new Date)
Read(req) ==
    /\ Dispatchable
    /\ Arrives
    /\ wall' \in (IF req.route \in {"GET /api/health", "GET /api/market/status",
                                     "GET /api/stocks", "GET /api/market/overview"}
                  THEN Later ELSE {wall})
    /\ response' \in Responses(req, DateOf(wall' + clock))
    /\ storeOrder' = OrderAfter(req)
    /\ UNCHANGED <<simulationSettings, simulatedPrices, priceHistory, updateIntervalId, timers,
                   nextTimerId, clock, tick, nResets, limits, live>>

(***************************************************************************)
(* The market gate of lines 564-570.                                       *)
(***************************************************************************)
GateClosedMut(settings, now) == FALSE
GateClosed(settings, now) ==
    LET marketStatus == isMarketOpen(settings, now)
    IN  ~marketStatus.isOpen /\ ~Truthy(settings.alwaysOpen)

(***************************************************************************)
(* A firing of an armed timer starts updateSimulatedPrices: the market     *)
(* gate (lines 564-570), then one TickStep per symbol in Map order.  The  *)
(* Math.random() draws of the run are fixed here, one vector that every    *)
(* loop body of the run sees.                                              *)
(***************************************************************************)
TimerFire(h) ==
    /\ Dispatchable
    /\ h \in DOMAIN timers
    /\ clock < limits.ticks
    /\ clock' = clock + 1
    /\ response' = NoResponse
    /\ wall' \in Later
    /\ IF GateClosed(simulationSettings, DateOf(wall' + clock'))
       THEN tick' = Idle
       ELSE \E d \in TickDraws :
               tick' = [pos |-> 1, ctx |-> TickContext(simulationSettings),
                        now |-> clock', draws |-> d]
    /\ UNCHANGED <<simulationSettings, simulatedPrices, priceHistory, storeOrder,
                   updateIntervalId, timers, nextTimerId, nResets, limits, live>>

TickStep ==
    /\ tick.pos >= 1
    /\ LET symbol == storeOrder[tick.pos]
       IN  \E q \in TickQuotes(simulatedPrices[symbol], symbol, tick.ctx, tick.draws, tick.now) :
              simulatedPrices' = [simulatedPrices EXCEPT ![symbol] = q]
    /\ tick' = IF tick.pos = Len(storeOrder) THEN Idle ELSE [tick EXCEPT !.pos = tick.pos + 1]
    /\ UNCHANGED <<simulationSettings, priceHistory, storeOrder, updateIntervalId, timers,
                   nextTimerId, clock, wall, response, nResets, limits, live>>

(***************************************************************************)
(* The live-data server (src/server-realtime.js), a program of its own.    *)
(* fetchRealTimeQuote (lines 200-255) runs in two steps around its await:  *)
(* the cache lookup in Fetch, the rest in Settle.  Time is in seconds.  A  *)
(* quote of the provider is the second at which the provider sent it.      *)
(***************************************************************************)
CACHE_DURATION == 5

LiveSymbols == {"TCS.NS", "INFY.NS"}

\* what fetchFromYahoo does: it rejects, resolves to a body without
\* chart.result[0], resolves to a result without meta, or resolves to a quote
Outcomes == {"rejected", "no result", "no meta", "quote"}

\* stockCache.get(symbol), <<>> for undefined
CacheGet(cache, symbol) == IF symbol \in DOMAIN cache THEN <<cache[symbol]>> ELSE <<>>

\* stockCache.set(symbol, entry)
CacheSet(cache, symbol, entry) ==
    [s \in DOMAIN cache \cup {symbol} |-> IF s = symbol THEN entry ELSE cache[s]]

\* cached && (Date.now() - cached.timestamp < CACHE_DURATION)
Fresh(cached, now) == cached # <<>> /\ now - cached[1].timestamp < CACHE_DURATION

NoReturn == [call |-> 0, symbol |-> "", value |-> <<>>, threw |-> FALSE, from |-> "none"]

NotStarted ==
    [now |-> 0, stockCache |-> [s \in {} |-> 0], calls |-> {}, nCalls |-> 0,
     fetched |-> 0, returned |-> NoReturn,
     multi |-> [phase |-> "idle", symbols |-> <<>>, i |-> 0, got |-> <<>>, results |-> <<>>]]

\* the elapsed times between two steps of the live-data server
LiveSteps == {1, 4}
LiveUntil == 6

\* lines 201-205: a fresh entry is returned, otherwise the call goes to the
\* provider holding the entry it read
Fetch(symbol) ==
    /\ live.nCalls < MaxCalls
    /\ LET cached == CacheGet(live.stockCache, symbol)
           id == live.nCalls + 1
       IN  IF Fresh(cached, live.now)
           THEN live' = [live EXCEPT
                           !.nCalls = id,
                           !.returned = [call |-> id, symbol |-> symbol,
                                         value |-> <<cached[1].data>>, threw |-> FALSE,
                                         from |-> "cache"]]
           ELSE live' = [live EXCEPT
                           !.nCalls = id,
                           !.fetched = @ + 1,
                           !.calls = @ \cup {[id |-> id, symbol |-> symbol, cached |-> cached]},
                           !.returned = NoReturn]
    /\ UNCHANGED <<simulationSettings, simulatedPrices, priceHistory, storeOrder,
                   updateIntervalId, timers, nextTimerId, clock, wall, tick, response,
                   nResets, limits>>

\* lines 207-254: the provider answered the call
SettledMut(call, outcome) ==
    IF outcome = "quote"
    THEN [live EXCEPT
            !.calls = @ \ {call},
            !.stockCache = CacheSet(@, call.symbol,
                                    [data |-> [symbol |-> call.symbol, lastUpdated |-> live.now],
                                     timestamp |-> live.now]),
            !.returned = [call |-> call.id, symbol |-> call.symbol,
                          value |-> <<[symbol |-> call.symbol, lastUpdated |-> live.now]>>,
                          threw |-> FALSE, from |-> "provider"]]
    ELSE [live EXCEPT
            !.calls = @ \ {call},
            !.returned = [call |-> call.id, symbol |-> call.symbol,
                          value |-> <<>>,
                          threw |-> FALSE, from |-> "catch"]]
Settled(call, outcome) ==
    IF outcome = "quote"
    THEN [live EXCEPT
            !.calls = @ \ {call},
            !.stockCache = CacheSet(@, call.symbol,
                                    [data |-> [symbol |-> call.symbol, lastUpdated |-> live.now],
                                     timestamp |-> live.now]),
            !.returned = [call |-> call.id, symbol |-> call.symbol,
                          value |-> <<[symbol |-> call.symbol, lastUpdated |-> live.now]>>,
                          threw |-> FALSE, from |-> "provider"]]
    ELSE [live EXCEPT
            !.calls = @ \ {call},
            !.returned = [call |-> call.id, symbol |-> call.symbol,
                          value |-> IF call.cached # <<>> THEN <<call.cached[1].data>> ELSE <<>>,
                          threw |-> FALSE, from |-> "catch"]]

Settle(call, outcome) ==
    /\ call \in live.calls
    /\ live' = Settled(call, outcome)
    /\ UNCHANGED <<simulationSettings, simulatedPrices, priceHistory, storeOrder,
                   updateIntervalId, timers, nextTimerId, clock, wall, tick, response,
                   nResets, limits>>

\* time passes on the live-data server
Elapse(dt) ==
    /\ live.now + dt <= LiveUntil
    /\ live' = [live EXCEPT !.now = @ + dt, !.returned = NoReturn]
    /\ UNCHANGED <<simulationSettings, simulatedPrices, priceHistory, storeOrder,
                   updateIntervalId, timers, nextTimerId, clock, wall, tick, response,
                   nResets, limits>>

(***************************************************************************)
(* The state after the module has loaded: default settings,                *)
(* initializeSimulatedPrices() (line 622) and startPriceUpdates() (line    *)
(* 632) with updateIntervalId still null.                                  *)
(***************************************************************************)
Loaded(order, starts) ==
    /\ storeOrder = order
    /\ wall \in starts
    /\ simulationSettings = DefaultSettings
    /\ simulatedPrices \in InitStores(order, 0)
    /\ priceHistory \in InitHistories(order, limits.days, SynthesisDraws, wall, limits.tz)
    /\ timers = Armed(Cleared(<<>>, 0), 1, Interval(DefaultSettings))
    /\ updateIntervalId = 1
    /\ nextTimerId = 2
    /\ clock = 0
    /\ tick = Idle
    /\ response = NoResponse
    /\ nResets = 0
    /\ live = NotStarted

\* the two-entry catalog; requests arrive until the second firing of the timer
Init ==
    /\ limits = [ticks |-> MaxTicks, puts |-> MaxPuts, resets |-> MaxResets, lead |-> 2,
                 bodies |-> "Bodies", readings |-> {},
                 tz |-> 0, days |-> 2, histDraws |-> "OneDraw",
                 params |-> Params, histParams |-> {"idea.ns"}, ranges |-> {"1mo"},
                 batches |-> "Undefined", initDraws |-> "InitDraws",
                 reads |-> "GET /api/health", tickDraws |-> "TickDraws"]
    /\ Loaded(AllStocksOrder, WallClocks)

\* the same program with the one-stock catalog and a long run of ticks
InitWalk ==
    /\ limits = [ticks |-> WalkTicks, puts |-> 1, resets |-> 1, lead |-> 0,
                 bodies |-> "Bodies", readings |-> {},
                 tz |-> 0, days |-> 2, histDraws |-> "OneDraw",
                 params |-> Params, histParams |-> {"idea.ns"}, ranges |-> {"1mo"},
                 batches |-> "Undefined", initDraws |-> "InitDraws",
                 reads |-> "GET /api/health", tickDraws |-> "TickDraws"]
    /\ Loaded(WalkOrder, {15 * DAY + QUARTER})

\* the same program with the one-stock catalog and sequences of settings
\* updates over the payloads at the bounds
InitSettings ==
    /\ limits = [ticks |-> 1, puts |-> MaxPuts + 1, resets |-> 1, lead |-> 1,
                 bodies |-> "BoundaryBodies", readings |-> {},
                 tz |-> 0, days |-> 2, histDraws |-> "OneDraw",
                 params |-> Params, histParams |-> {"idea.ns"}, ranges |-> {"1mo"},
                 batches |-> "Undefined", initDraws |-> "InitDraws",
                 reads |-> "GET /api/health", tickDraws |-> "TickDraws"]
    /\ Loaded(WalkOrder, {15 * DAY + QUARTER})

\* the same program with the one-stock catalog, started on different days of
\* the week in two time zones, with time passing between the handlers
HistoryStarts ==
    { 19 * DAY + 3 * QUARTER,        \* Friday 18:00 UTC
      20 * DAY + QUARTER,            \* Saturday 06:00 UTC
      21 * DAY + 3 * QUARTER,        \* Sunday 18:00 UTC, Monday 00:00 at UTC+6
      22 * DAY + QUARTER }           \* Monday 06:00 UTC

InitHistory ==
    \E start \in HistoryStarts, zone \in {0, 1} :
       /\ limits = [ticks |-> 1, puts |-> 1, resets |-> 1, lead |-> 1,
                    bodies |-> "EmptyBody", readings |-> {start + 1, start + QUARTER, start + DAY,
                                                           start + DAY + QUARTER},
                    tz |-> zone, days |-> HistoryDays, histDraws |-> "HistoryDraws",
                    params |-> {"NOPE"}, histParams |-> {"idea", "NOPE"},
                    ranges |-> {"", "1d", "5d"}, batches |-> "Undefined",
                    initDraws |-> "InitDraws",
                 reads |-> "GET /api/health", tickDraws |-> "TickDraws"]
       /\ Loaded(WalkOrder, {start})

\* the same program with the two-entry catalog and the lookups by symbol
InitLookup ==
    /\ limits = [ticks |-> 1, puts |-> 1, resets |-> 1, lead |-> 1,
                 bodies |-> "EmptyBody", readings |-> {},
                 tz |-> 0, days |-> 2, histDraws |-> "OneDraw",
                 params |-> LookupParams, histParams |-> {"idea.ns"},
                 ranges |-> {"1mo", "constructor"},
                 batches |-> "BatchBodies", initDraws |-> "boundary",
                 reads |-> "GET /api/health", tickDraws |-> "TickDraws"]
    /\ Loaded(AllStocksOrder, {15 * DAY + QUARTER})

\* the whole catalog with every read endpoint around one tick
InitReads ==
    /\ limits = [ticks |-> 1, puts |-> 1, resets |-> 1, lead |-> 1,
                 bodies |-> "Bodies, speed 0.5", readings |-> {},
                 tz |-> 0, days |-> 2, histDraws |-> "OneDraw",
                 params |-> {"idea.ns"}, histParams |-> {"idea.ns"}, ranges |-> {"1mo"},
                 batches |-> "Undefined", initDraws |-> "alternate",
                 reads |-> "ReadRequests", tickDraws |-> "boundary"]
    /\ Loaded(CatalogOrder, {15 * DAY + QUARTER})

Next ==
    \/ \E body \in PutBodies : PutSettings(body)
    \/ Reset
    \/ \E param \in limits.params : GetStock(param)
    \/ \E symbols \in BatchRequests : Batch(symbols)
    \/ \E param \in limits.histParams, query \in limits.ranges : GetHistory(param, query)
    \/ \E req \in ReadRoutes : Read(req)
    \/ \E h \in DOMAIN timers : TimerFire(h)
    \/ TickStep

Spec == Init /\ [][Next]_vars
SpecWalk == InitWalk /\ [][Next]_vars
SpecSettings == InitSettings /\ [][Next]_vars

\* the event loop runs the callback of an armed interval timer when it is due
SpecFair ==
    /\ InitSettings
    /\ [][Next]_vars
    /\ WF_vars(\E h \in DOMAIN timers : TimerFire(h))
SpecHistory == InitHistory /\ [][Next]_vars
SpecLookup == InitLookup /\ [][Next]_vars
SpecReads == InitReads /\ [][Next]_vars

\* GET /api/market/status of the simulation server with new Date() as an input
Status(now) ==
    /\ Dispatchable
    /\ response' \in Responses([route |-> "GET /api/market/status", arg |-> ""], now)
    /\ UNCHANGED <<simulationSettings, simulatedPrices, priceHistory, storeOrder,
                   updateIntervalId, timers, nextTimerId, clock, wall, tick, nResets,
                   limits, live>>

\* GET /api/market/status of the live-data server (server-realtime.js:403-416)
LiveStatus(now) ==
    /\ live' = [live EXCEPT !.returned =
                   [NoReturn EXCEPT !.value = <<[marketStatus |-> isMarketOpenLive(now),
                                                 tradingHours |-> "9:15 AM - 3:30 PM IST",
                                                 serverTime |-> now]>>,
                                    !.from = "GET /api/market/status"]]
    /\ UNCHANGED <<simulationSettings, simulatedPrices, priceHistory, storeOrder,
                   updateIntervalId, timers, nextTimerId, clock, wall, tick, response,
                   nResets, limits>>

\* the Market Clock of the two servers over the readings, under the settings
\* that an update can leave
NextClock ==
    \/ \E body \in PutBodies : PutSettings(body)
    \/ \E now \in ClockReadings : Status(now)
    \/ \E now \in ClockReadings : LiveStatus(now)

SpecClock == InitWalk /\ [][NextClock]_vars

\* the live-data server next to an idle simulation server
NextLive ==
    \/ \E symbol \in LiveSymbols : Fetch(symbol)
    \/ \E call \in live.calls, outcome \in Outcomes : Settle(call, outcome)
    \/ \E dt \in LiveSteps : Elapse(dt)

SpecLive == InitWalk /\ [][NextLive]_vars

(***************************************************************************)
(* fetchMultipleQuotes (src/server-realtime.js:257-275).  live.multi holds *)
(* the one call: the loop index i, the values the calls of the current     *)
(* batch have returned so far (got, by position in symbols), and results.  *)
(* A value is <<>> for null and <<data>> for a quote.  live.calls are the  *)
(* provider requests outstanding, with the position as the call's id.      *)
(***************************************************************************)
batchSizeMut == 5 + 1
batchSize == 5

\* the symbols arrays of the callers
MultiRequests ==
    {[p \in 1 .. n |-> IF p % 2 = 1 THEN "TCS.NS" ELSE "INFY.NS"] : n \in 0 .. MaxSymbols}

\* lines 262-264: the loop test, and batch.map(fetchRealTimeQuote), which runs
\* every call of the batch up to its await (lines 201-209)
Iterate(l, symbols, i, results) ==
    IF i < Len(symbols)
    THEN LET positions == (i + 1) .. Min(i + batchSize, Len(symbols))
             fresh == {p \in positions : Fresh(CacheGet(l.stockCache, symbols[p]), l.now)}
         IN  [l EXCEPT
                !.calls = @ \cup {[id |-> p, symbol |-> symbols[p],
                                   cached |-> CacheGet(l.stockCache, symbols[p])] :
                                     p \in positions \ fresh},
                !.fetched = @ + Cardinality(positions \ fresh),
                !.returned = NoReturn,
                !.multi = [phase |-> "batch", symbols |-> symbols, i |-> i,
                           got |-> [p \in fresh |-> <<l.stockCache[symbols[p]].data>>],
                           results |-> results]]
    ELSE [l EXCEPT !.multi = [phase |-> "returned", symbols |-> symbols, i |-> i,
                              got |-> <<>>, results |-> results]]

\* fetchMultipleQuotes(symbols) is called
Multi(symbols) ==
    /\ live.multi.phase = "idle"
    /\ live' = Iterate(live, symbols, 0, <<>>)
    /\ UNCHANGED <<simulationSettings, simulatedPrices, priceHistory, storeOrder,
                   updateIntervalId, timers, nextTimerId, clock, wall, tick, response,
                   nResets, limits>>

\* the provider answered a call of the batch, which returns its value
Answer(call, outcome) ==
    /\ call \in live.calls
    /\ LET l == Settled(call, outcome)
       IN  live' = [l EXCEPT
                      !.multi.got = [p \in DOMAIN @ \cup {call.id} |->
                                        IF p = call.id THEN l.returned.value ELSE @[p]]]
    /\ UNCHANGED <<simulationSettings, simulatedPrices, priceHistory, storeOrder,
                   updateIntervalId, timers, nextTimerId, clock, wall, tick, response,
                   nResets, limits>>

\* lines 265-271: Promise.all has resolved
Gathered ==
    LET m == live.multi
        n == Min(batchSize, Len(m.symbols) - m.i)
        batchResults == [k \in 1 .. n |-> m.got[m.i + k]]
        Boolean(value) == value # <<>>
    IN  /\ m.phase = "batch"
        /\ DOMAIN m.got = (m.i + 1) .. (m.i + n)
        /\ live' = IF m.i + batchSize < Len(m.symbols)
                   THEN [live EXCEPT
                           !.multi = [m EXCEPT !.phase = "sleep", !.got = <<>>,
                                               !.results = @ \o SelectSeq(batchResults, Boolean)]]
                   ELSE Iterate(live, m.symbols, m.i + batchSize,
                                m.results \o SelectSeq(batchResults, Boolean))
        /\ UNCHANGED <<simulationSettings, simulatedPrices, priceHistory, storeOrder,
                       updateIntervalId, timers, nextTimerId, clock, wall, tick, response,
                       nResets, limits>>

\* line 270: the 200 ms timer has fired, the loop goes on
Wake ==
    /\ live.multi.phase = "sleep"
    /\ live' = Iterate(live, live.multi.symbols, live.multi.i + batchSize, live.multi.results)
    /\ UNCHANGED <<simulationSettings, simulatedPrices, priceHistory, storeOrder,
                   updateIntervalId, timers, nextTimerId, clock, wall, tick, response,
                   nResets, limits>>

NextMulti ==
    \/ \E symbols \in MultiRequests : Multi(symbols)
    \/ \E call \in live.calls, outcome \in Outcomes : Answer(call, outcome)
    \/ Gathered
    \/ Wake

SpecMulti == InitWalk /\ [][NextMulti]_vars

(***************************************************************************)
(* Properties.                                                             *)
(***************************************************************************)
Quotes == {simulatedPrices[s] : s \in DOMAIN simulatedPrices}
TickDone == clock >= 1 /\ tick.pos = 0

\* C1: in every state reached after at least one tick, every symbol of the
\* Store, moved or skipped, has low <= price <= high on the stored values.
C1_LowPriceHighAfterTick ==
    TickDone => \A q \in Quotes : q.low <= q.price /\ q.price <= q.high

\* C2: the stored price of every symbol is strictly greater than 0 in every
\* reachable state, also after downward moves larger than the price, where
\* the half-price floor is followed by the 2-decimal rounding.
C2_PricePositive == \A q \in Quotes : q.price > 0

\* the floor acted on the price 0.01: the unrounded 0.005 is stored as 0.01
\* (changePercent -99.96 arises from the unrounded price 0.005 only)
C2_FloorAtOneCent ==
    \E q \in Quotes : q.price = CENT /\ q.changePercent = 0 - 9996 /\ q.lastUpdated >= 1

\* C3: no tick, settings update or read changes the previousClose of any
\* symbol: every step that is not a reset leaves each previousClose as it was.
C3_PreviousCloseFrame ==
    [][nResets' = nResets =>
         \A s \in DOMAIN simulatedPrices :
            simulatedPrices'[s].previousClose = simulatedPrices[s].previousClose]_vars

\* a tick has moved a symbol away from its previousClose after a settings update
C3_MovedAfterPut ==
    /\ nextTimerId > 2
    /\ \E q \in Quotes : q.lastUpdated >= 1 /\ q.price # q.previousClose

\* C4: right after startup init and right after every reset, however many
\* ticks ran before it, previousClose = basePrice for every catalog symbol.
C4_ResetPreviousClose ==
    /\ \A s \in DOMAIN simulatedPrices : simulatedPrices[s].previousClose = BasePrice(s)
    /\ [][nResets' = nResets + 1 =>
            \A s \in DOMAIN simulatedPrices' :
               simulatedPrices'[s].previousClose = BasePrice(s)]_vars

\* a reset has just run after ticks that moved prices
C4_ResetAfterTicks ==
    /\ response.op = "POST /api/simulation/reset"
    /\ nResets = 1
    /\ clock >= 2

\* C5: for every symbol the stored price, change and changePercent are the
\* 2-decimal roundings of one unrounded price x: x is within 0.005 of price,
\* change within 0.005 of x - previousClose, and changePercent within 0.005
\* of (x - previousClose) / previousClose * 100.  With y = x - previousClose the
\* three intervals for 2y must meet.
C5_Consistent(q) ==
    LET h == CENT \div 2
        d == q.previousClose \div 10000
        lo == Max(Max(2 * (q.price - q.previousClose - h), 2 * (q.change - h)),
                  (2 * q.changePercent - 1) * d)
        hi == Min(Min(2 * (q.price - q.previousClose + h), 2 * (q.change + h)),
                  (2 * q.changePercent + 1) * d)
    IN  lo <= hi

C5_ChangeFields == \A q \in Quotes : C5_Consistent(q)

\* a tick stored a price that came from the half-price floor at a decimal tie
C5_AfterFloorTie ==
    \E q \in Quotes : /\ q.lastUpdated >= 1
                      /\ q.changePercent = 0 - 5004
                      /\ Abs(q.price - 5995000) = CENT \div 2

\* C6: a single-quote read returns one complete stored record: the record of
\* the response equals, field by field, the record the Store holds for that
\* symbol, which is the post-tick record of the last tick (and the pre-tick
\* record of the next); no field comes from another tick.
C6_ReadWholeRecord ==
    (response.op = "GET /api/stocks/:symbol" /\ response.status = 200) =>
        /\ Len(response.quotes) = 1
        /\ response.quotes[1].symbol \in DOMAIN simulatedPrices
        /\ response.quotes[1] = simulatedPrices[response.quotes[1].symbol]

\* a read between two ticks returned a record that the last tick wrote
C6_ReadAfterTick ==
    /\ response.op = "GET /api/stocks/:symbol"
    /\ response.status = 200
    /\ clock >= 1
    /\ clock < limits.ticks
    /\ response.quotes[1].lastUpdated = clock

\* C7: at every moment after startup exactly one price timer is armed, the
\* one whose handle is updateIntervalId.
C7_OneTimer ==
    /\ Cardinality(DOMAIN timers) = 1
    /\ DOMAIN timers = {updateIntervalId}

\* a settings update has replaced the timer
C7_AfterPut == nextTimerId > 2 /\ updateIntervalId = nextTimerId - 1

\* C8: while a tick runs, the only thing that happens is the update of the
\* next symbol in Map order: no other tick, settings update, reset or read
\* begins before the tick has passed the last symbol.
C8_TicksSerialized ==
    [][tick.pos >= 1 =>
         /\ tick' = IF tick.pos = Len(storeOrder) THEN Idle
                    ELSE [tick EXCEPT !.pos = tick.pos + 1]
         /\ \A s \in DOMAIN simulatedPrices :
               s # storeOrder[tick.pos] => simulatedPrices'[s] = simulatedPrices[s]
         /\ UNCHANGED <<simulationSettings, updateIntervalId, timers, nextTimerId,
                        clock, response, nResets>>]_vars

\* a tick is in flight, the first symbol has been moved and the second is next
C8_MidTick ==
    /\ tick.pos = 2
    /\ simulatedPrices[storeOrder[1]].lastUpdated = clock

\* C9: the period of every armed timer is max(500 ms, updateInterval / speed)
\* of the current settings, and never below 500 ms.
C9_Period(iv, settings) ==
    /\ iv.num >= 500 * iv.den
    /\ \/ /\ settings.updateInterval * 10 >= 500 * settings.speed
          /\ iv.num * settings.speed = settings.updateInterval * 10 * iv.den
       \/ /\ settings.updateInterval * 10 <= 500 * settings.speed
          /\ iv.num = 500 * iv.den

C9_TimerPeriod == \A h \in DOMAIN timers : C9_Period(timers[h], simulationSettings)

\* a settings update made updateInterval / speed fall below 500 ms
C9_Clamped ==
    /\ simulationSettings.speed = 100
    /\ simulationSettings.updateInterval = 500
    /\ timers[updateIntervalId] = [num |-> 500, den |-> 1]

\* C10: a settings update with an empty body leaves the settings unchanged
\* and does not reschedule the timer.
C10_EmptyUpdateKeepsTimer ==
    [][PutSettings(EmptyBody) =>
         /\ simulationSettings' = simulationSettings
         /\ timers' = timers
         /\ updateIntervalId' = updateIntervalId]_vars

\* C11: a settings update always succeeds (status 200); each field of the
\* request that lies outside its bound or enum keeps its prior value, and each
\* field inside its bound is applied, whatever the other fields of the same
\* request are (speed and volatilityMultiplier in tenths, priceTickSize in
\* micro-units, maxTickMultiplier in tenths and stored floored).
C11_FieldApplied(old, new, given, inBound, stored) ==
    new = IF given # {} /\ inBound THEN stored ELSE old

C11_Outcome(body, old, new) ==
    /\ C11_FieldApplied(old.speed, new.speed, body.speed,
                        body.speed # {} /\ Val(body.speed) > 0 /\ Val(body.speed) <= 100,
                        Val(body.speed))
    /\ C11_FieldApplied(old.volatilityMultiplier, new.volatilityMultiplier,
                        body.volatilityMultiplier,
                        body.volatilityMultiplier # {} /\ Val(body.volatilityMultiplier) > 0
                            /\ Val(body.volatilityMultiplier) <= 50,
                        Val(body.volatilityMultiplier))
    /\ C11_FieldApplied(old.updateInterval, new.updateInterval, body.updateInterval,
                        body.updateInterval # {} /\ Val(body.updateInterval) >= 500
                            /\ Val(body.updateInterval) <= 10000,
                        Val(body.updateInterval))
    /\ C11_FieldApplied(old.priceTickSize, new.priceTickSize, body.priceTickSize,
                        body.priceTickSize # {} /\ Val(body.priceTickSize) \in
                            {1 * CENT, 5 * CENT, 10 * CENT, 25 * CENT, 50 * CENT, 100 * CENT},
                        Val(body.priceTickSize))
    /\ C11_FieldApplied(old.maxTickMultiplier, new.maxTickMultiplier, body.maxTickMultiplier,
                        body.maxTickMultiplier # {} /\ Val(body.maxTickMultiplier) >= 10
                            /\ Val(body.maxTickMultiplier) <= 100,
                        Val(body.maxTickMultiplier) \div 10)
    /\ C11_FieldApplied(old.alwaysOpen, new.alwaysOpen, body.alwaysOpen, TRUE,
                        Val(body.alwaysOpen))

C11_InvalidFieldsIgnored ==
    [][\A body \in Bodies \cup BoundaryBodies :
          PutSettings(body) =>
             /\ response'.status = 200
             /\ response'.settings = <<simulationSettings'>>
             /\ C11_Outcome(body, simulationSettings, simulationSettings')]_vars

\* the update {speed: 11, updateInterval: 10000} was answered: speed kept its
\* default, updateInterval was applied
C11_MixedApplied ==
    /\ response.op = "PUT /api/simulation/settings"
    /\ response.status = 200
    /\ nextTimerId = 3
    /\ simulationSettings.speed = 10
    /\ simulationSettings.updateInterval = 10000

\* C12: in every reachable state, after any sequence of settings updates,
\* 0 < speed <= 10, 0 < volatilityMultiplier <= 5, 500 <= updateInterval <= 10000,
\* priceTickSize is one of 0.01, 0.05, 0.10, 0.25, 0.50, 1.00 and
\* maxTickMultiplier is an integer from 1 to 10.
C12_SettingsInBounds ==
    /\ simulationSettings.speed > 0 /\ simulationSettings.speed <= 100
    /\ simulationSettings.volatilityMultiplier > 0
    /\ simulationSettings.volatilityMultiplier <= 50
    /\ simulationSettings.updateInterval >= 500
    /\ simulationSettings.updateInterval <= 10000
    /\ simulationSettings.priceTickSize \in
           {1 * CENT, 5 * CENT, 10 * CENT, 25 * CENT, 50 * CENT, 100 * CENT}
    /\ simulationSettings.maxTickMultiplier \in 1..10

\* two updates have put speed on its upper bound and floored the payload 9.5
\* of maxTickMultiplier
C12_AtTheBounds ==
    /\ nextTimerId = 4
    /\ simulationSettings.speed = 100
    /\ simulationSettings.maxTickMultiplier = 9

\* C13: a tick that starts while alwaysOpen is false and the Market Clock
\* reports closed at the reading of Date of that tick ends at once and leaves
\* every Quote of the Store as it was, every field included.
C13_ClosedTickFrame ==
    [][(/\ clock' = clock + 1
        /\ ~Truthy(simulationSettings.alwaysOpen)
        /\ ~isMarketOpen(simulationSettings, DateOf(wall' + clock')).isOpen)
       => (simulatedPrices' = simulatedPrices /\ tick'.pos = 0)]_vars

\* a tick has just run on a Sunday (IST) with alwaysOpen false
C13_SundayTick ==
    /\ clock >= 1
    /\ tick.pos = 0
    /\ response.op = "none"
    /\ simulationSettings.alwaysOpen = JSBool(FALSE)
    /\ DateOf(wall + clock).utcDay = 0
    /\ isMarketOpen(simulationSettings, DateOf(wall + clock)).reason = "Weekend - Market Closed"

\* C14: a reset writes a fresh record for every symbol of the Store and
\* leaves every field of the settings, the armed timer, its handle and its
\* period as they were.
C14_ResetFrame ==
    [][nResets' = nResets + 1 =>
          /\ \A s \in DOMAIN simulatedPrices' :
                /\ simulatedPrices'[s].lastUpdated = clock
                /\ simulatedPrices'[s].previousClose = BasePrice(s)
          /\ DOMAIN simulatedPrices' = DOMAIN simulatedPrices
          /\ simulationSettings' = simulationSettings
          /\ timers' = timers
          /\ updateIntervalId' = updateIntervalId]_vars

\* a reset has just run after a settings update that changed the speed and
\* with it the period of the timer
C14_ResetAfterPut ==
    /\ response.op = "POST /api/simulation/reset"
    /\ simulationSettings.speed = 20
    /\ updateIntervalId = 2
    /\ timers[updateIntervalId] = Ratio(20000, 20)

HistoryServed ==
    response.op = "GET /api/stocks/:symbol/history" /\ response.status = 200

\* C15: a history read, whatever it serves, leaves the stored candle series
\* of every symbol as it was, length and candles.
C15_ReadKeepsSeries ==
    [][response'.op = "GET /api/stocks/:symbol/history" => priceHistory' = priceHistory]_vars

\* a read has served the stored series with its last candle overlaid by the
\* live Quote, and the stored last candle still differs from the served one
C15_OverlaidCopy ==
    /\ HistoryServed
    /\ response.range = "1y"
    /\ \E s \in DOMAIN priceHistory :
          /\ Len(response.candles) = Len(priceHistory[s])
          /\ Len(response.candles) > 0
          /\ response.candles[Len(response.candles)] # priceHistory[s][Len(priceHistory[s])]
          /\ response.candles[Len(response.candles)].close = simulatedPrices[s].price

\* C16: every series served for a known symbol ends with a candle dated
\* today whose close is the current price of the live Quote, also when the
\* range filter keeps no stored candle.
C16_EndsWithToday ==
    HistoryServed =>
       /\ Len(response.candles) > 0
       /\ response.candles[Len(response.candles)].date = IsoDate(wall + clock)
       /\ \E s \in DOMAIN simulatedPrices :
             /\ response.symbol \in {s, appendNS(s)}
             /\ response.candles[Len(response.candles)].close = simulatedPrices[s].price

\* C17: every stored candle and every served candle has
\* low <= open <= high and low <= close <= high.
C17_Ordered(c) == c.low <= c.open /\ c.open <= c.high /\ c.low <= c.close /\ c.close <= c.high

C17_StoredOrdered ==
    \A s \in DOMAIN priceHistory :
       \A i \in 1..Len(priceHistory[s]) : C17_Ordered(priceHistory[s][i])

C17_CandlesOrdered ==
    /\ C17_StoredOrdered
    /\ HistoryServed => \A i \in 1..Len(response.candles) : C17_Ordered(response.candles[i])

\* C18: every stored series and every served series has strictly ascending
\* timestamps and no candle dated a Saturday or a Sunday, the date of a
\* candle being its date field.
C18_Ascending(series) ==
    \A i \in 1..(Len(series) - 1) : series[i].timestamp < series[i + 1].timestamp

\* day 0 of IsoDate is a Sunday
C18_NoWeekend(series) ==
    \A i \in 1..Len(series) : series[i].date % 7 \in 1..5

C18_AscendingNoWeekend ==
    /\ \A s \in DOMAIN priceHistory :
          C18_Ascending(priceHistory[s]) /\ C18_NoWeekend(priceHistory[s])
    /\ HistoryServed => C18_Ascending(response.candles) /\ C18_NoWeekend(response.candles)

\* C19: a single-symbol lookup of IDEA, idea, IDEA.NS or idea.ns answers 200
\* with the stored record of IDEA.NS, a lookup of an index by its ^ name
\* without suffix answers 200 with the record of the index, and a lookup that
\* resolves to nothing answers 404 with success false and the error "Stock
\* not found"; the real-time variant hands the same symbol to its fetch for
\* the four forms and leaves a ^ name without suffix.
C19_Forms == {"IDEA", "idea", "IDEA.NS", "idea.ns"}
C19_IndexForms == {"^CNXREALTY", "^cnxrealty"}
C19_Unknown == {"NOPE", "nope"}

C19_Found(symbol) ==
    /\ response'.status = 200
    /\ response'.success
    /\ response'.error = ""
    /\ response'.quotes = <<simulatedPrices[symbol]>>

C19_NotFound ==
    /\ response'.status = 404
    /\ ~response'.success
    /\ response'.error = "Stock not found"
    /\ response'.quotes = <<>>

C19_LookupTolerant ==
    [][\A param \in limits.params :
          GetStock(param) =>
             /\ param \in C19_Forms => C19_Found("IDEA.NS")
             /\ param \in C19_Forms => RealtimeSymbol(param) = "IDEA.NS"
             /\ param \in C19_IndexForms => C19_Found("^CNXREALTY")
             /\ param \in C19_IndexForms => RealtimeSymbol(param) = "^CNXREALTY"
             /\ param \in C19_Unknown => C19_NotFound
             /\ response'.status \in {200, 404}
             /\ response'.status = 404 => C19_NotFound]_vars

\* after a tick, the lookup of the lower-case bare symbol answers with the
\* ticked record of IDEA.NS
C19_BareLowerCase ==
    /\ response.op = "GET /api/stocks/:symbol"
    /\ response.param = "idea"
    /\ response.status = 200
    /\ response.quotes = <<simulatedPrices["IDEA.NS"]>>
    /\ response.quotes[1].lastUpdated > 0

\* C20: a batch whose symbols is missing or not an array answers 400;
\* otherwise it answers 200 with, in the order of the request, the record of
\* every requested symbol that the single-symbol resolution finds, and
\* nothing for the others.
C20_Resolving(items) == {i \in 1..Len(items) : StockLookup(items[i]) # <<>>}

C20_InRequestOrder(items, quotes) ==
    /\ Len(quotes) = Cardinality(C20_Resolving(items))
    /\ \A i \in C20_Resolving(items) :
          quotes[Cardinality({j \in C20_Resolving(items) : j <= i})] = StockLookup(items[i])[1]

C20_BatchResolves ==
    [][\A symbols \in BatchRequests :
          Batch(symbols) =>
             IF symbols.type = "array"
             THEN /\ response'.status = 200
                  /\ response'.success
                  /\ C20_InRequestOrder(symbols.items, response'.quotes)
             ELSE /\ response'.status = 400
                  /\ ~response'.success
                  /\ response'.error = "symbols array required"
                  /\ response'.quotes = <<>>]_vars

\* after a tick, a batch of an index, an unknown symbol and a stock answers
\* with the two records, the index first
C20_DroppedInOrder ==
    /\ response.op = "POST /api/stocks/batch"
    /\ response.status = 200
    /\ response.symbols.items = <<"^cnxrealty", "NOPE", "idea">>
    /\ response.quotes = <<simulatedPrices["^CNXREALTY"], simulatedPrices["IDEA.NS"]>>
    /\ response.quotes[1].lastUpdated > 0

\* a batch whose symbols is a string answers 400
C20_StringRejected ==
    /\ response.op = "POST /api/stocks/batch"
    /\ response.status = 400
    /\ response.symbols.type = "string"
    /\ response.symbols.items # <<>>

\* C21: a call of fetchRealTimeQuote whose provider call fails (rejected, no
\* result, no meta) does not throw and leaves stockCache as it was; it
\* returns the data of the entry it found in stockCache for the symbol,
\* however old, and null when it found none; unless an overlapping call for
\* the symbol has cached a quote since, that entry is the one stockCache holds.
C21_FailureFallsBack ==
    [][\A call \in live.calls, outcome \in Outcomes \ {"quote"} :
          Settle(call, outcome) =>
             /\ ~live'.returned.threw
             /\ live'.stockCache = live.stockCache
             /\ live'.returned.value =
                   IF call.cached # <<>> THEN <<call.cached[1].data>> ELSE <<>>
             /\ CacheGet(live.stockCache, call.symbol) = call.cached
                   => live'.returned.value =
                         IF call.symbol \in DOMAIN live.stockCache
                         THEN <<live.stockCache[call.symbol].data>>
                         ELSE <<>>]_vars

\* a failed call has returned a quote cached longer ago than CACHE_DURATION
C21_StaleServed ==
    /\ live.returned.from = "catch"
    /\ ~live.returned.threw
    /\ live.returned.value # <<>>
    /\ live.now - live.returned.value[1].lastUpdated >= CACHE_DURATION
    /\ live.returned.symbol \in DOMAIN live.stockCache

\* C22: a call of fetchRealTimeQuote for a symbol whose entry was fetched
\* less than 30 seconds ago is answered from stockCache, without a call of
\* the provider.
C22_CachedThirtySeconds ==
    [][\A symbol \in LiveSymbols :
          (/\ Fetch(symbol)
           /\ symbol \in DOMAIN live.stockCache
           /\ live.now - live.stockCache[symbol].timestamp < 30)
          => /\ live'.fetched = live.fetched
             /\ live'.returned.from = "cache"
             /\ live'.returned.value = <<live.stockCache[symbol].data>>]_vars

\* a step that answers a request on the route
Answered(route) == tick.pos = 0 /\ response'.op = route

\* the symbols of a list of Quotes
SymbolsOf(quotes) == {quotes[i].symbol : i \in DOMAIN quotes}

\* the Quotes are those of the Store, each symbol once, in Store order
C23_FromStore(quotes) ==
    /\ \A i \in DOMAIN quotes :
          /\ quotes[i].symbol \in DOMAIN simulatedPrices
          /\ quotes[i] = simulatedPrices[quotes[i].symbol]
    /\ \A i, j \in DOMAIN quotes :
          i < j => \E k, l \in DOMAIN storeOrder :
                     k < l /\ storeOrder[k] = quotes[i].symbol /\ storeOrder[l] = quotes[j].symbol

\* C23: GET /api/stocks returns exactly the Quotes of the Store whose symbol
\* is a stock of the catalog, with count the number returned, and GET
\* /api/indices exactly those whose symbol is an index of the catalog; no
\* symbol is on both lists and every symbol of the Store is on one.
C23_ListsPartition ==
    [][/\ Answered("GET /api/stocks") =>
             /\ C23_FromStore(response'.quotes)
             /\ SymbolsOf(response'.quotes) = DOMAIN simulatedPrices \cap StockSymbols
             /\ \A i \in DOMAIN response'.quotes : response'.quotes[i].sector # "Index"
             /\ response'.count = Len(response'.quotes)
             /\ response'.count = Cardinality(DOMAIN simulatedPrices \cap StockSymbols)
       /\ Answered("GET /api/indices") =>
             /\ C23_FromStore(response'.quotes)
             /\ SymbolsOf(response'.quotes) = DOMAIN simulatedPrices \cap IndexSymbols
             /\ \A i \in DOMAIN response'.quotes : response'.quotes[i].sector = "Index"
       /\ StockSymbols \cap IndexSymbols = {}
       /\ DOMAIN simulatedPrices \subseteq StockSymbols \cup IndexSymbols]_vars

\* the stock list of the whole catalog has been served after a tick
C23_StocksAfterTick ==
    /\ response.op = "GET /api/stocks"
    /\ response.count = 12
    /\ Cardinality(DOMAIN simulatedPrices) = 14
    /\ clock >= 1
    /\ \E s \in DOMAIN simulatedPrices : simulatedPrices[s].change # 0

\* the indices of the whole catalog have been served after a tick
C23_IndicesAfterTick ==
    /\ response.op = "GET /api/indices"
    /\ Len(response.quotes) = 2
    /\ clock >= 1

\* the Quotes are at most 10 non-index Quotes of the Store in the order of
\* the field, and no non-index Quote left out ranks strictly better than one
\* of them
C24_Top(quotes, field, descending) ==
    LET Better(a, b) == IF descending THEN a[field] > b[field] ELSE a[field] < b[field]
        left == {q \in Quotes : q.sector # "Index" /\ q.symbol \notin SymbolsOf(quotes)}
    IN  /\ Len(quotes) <= 10
        /\ Len(quotes) = Min(10, Cardinality(DOMAIN simulatedPrices \cap StockSymbols))
        /\ Cardinality(SymbolsOf(quotes)) = Len(quotes)
        /\ \A i \in DOMAIN quotes :
              /\ quotes[i].sector # "Index"
              /\ quotes[i].symbol \in DOMAIN simulatedPrices
              /\ quotes[i] = simulatedPrices[quotes[i].symbol]
        /\ \A i, j \in DOMAIN quotes : i < j => ~Better(quotes[j], quotes[i])
        /\ \A q \in left : \A i \in DOMAIN quotes : ~Better(q, quotes[i])

\* C24: the gainers, losers and active routes each return at most 10
\* non-index Quotes of the Store, ordered by changePercent descending,
\* changePercent ascending and volume descending, and no Quote left out ranks
\* strictly better than a returned one under that ordering.
C24_TopTen ==
    [][/\ Answered("GET /api/market/gainers") => C24_Top(response'.quotes, "changePercent", TRUE)
       /\ Answered("GET /api/market/losers") => C24_Top(response'.quotes, "changePercent", FALSE)
       /\ Answered("GET /api/market/active") => C24_Top(response'.quotes, "volume", TRUE)]_vars

\* the gainers of a Store of twelve stocks have been served after a tick: ten
\* Quotes not in Store order, with different changePercent, two left out
C24_TenOfTwelve ==
    /\ response.op = "GET /api/market/gainers"
    /\ clock >= 1
    /\ Len(response.quotes) = 10
    /\ Cardinality(DOMAIN simulatedPrices \cap StockSymbols) = 12
    /\ response.quotes[1].changePercent > response.quotes[10].changePercent
    /\ response.quotes # SubSeq(Values, 1, 10)

\* the operations that read the Store
C25_ReadOps ==
    {req.route : req \in ReadRequests}
    \cup {"GET /api/stocks/:symbol", "POST /api/stocks/batch", "GET /api/stocks/:symbol/history"}

\* C25: a read operation (single quote, batch, list, history, depth, search,
\* gainers, losers, active, sectors, overview, health) leaves every Quote,
\* the set of symbols and the iteration order of the Store as they were; the
\* Store changes only in a reset and in a tick.
C25_ReadsKeepStore ==
    [][/\ (tick.pos = 0 /\ response'.op \in C25_ReadOps)
             => simulatedPrices' = simulatedPrices /\ storeOrder' = storeOrder
       /\ (simulatedPrices' # simulatedPrices \/ storeOrder' # storeOrder)
             => tick.pos # 0 \/ response'.op = "POST /api/simulation/reset"]_vars

\* the overview has been served from a Store whose order is not the order
\* of changePercent, after a tick
C25_OverviewAfterTick ==
    /\ response.op = "GET /api/market/overview"
    /\ clock >= 1
    /\ Len(storeOrder) = 14
    /\ sort(Values, "changePercent", TRUE) # Values

\* the step is a pass of the loop of a tick that has written the record of symbol s
C26_Moves(s) ==
    /\ tick.pos >= 1
    /\ storeOrder[tick.pos] = s
    /\ simulatedPrices'[s] # simulatedPrices[s]

\* C26: a tick moves the price of a symbol by k price ticks up or down, with
\* 1 <= k <= maxTickMultiplier and the priceTickSize of the settings of that
\* moment, or to half the old price when the move down would go below it;
\* the stored price is that value rounded to cents.  With maxTickMultiplier
\* 1 and priceTickSize 0.05 a move up gives the old price plus 0.05.
C26_TickSteps ==
    [][\A s \in DOMAIN simulatedPrices :
          C26_Moves(s) =>
             LET old == simulatedPrices[s].price
                 new == simulatedPrices'[s].price
                 size == simulationSettings.priceTickSize
                 most == simulationSettings.maxTickMultiplier
             IN  /\ \E k \in 1..most :
                       \/ new = Round2(old + k * size)
                       \/ 2 * (old - k * size) >= old /\ new = Round2(old - k * size)
                       \/ 2 * (old - k * size) < old /\ new = Round2(old \div 2)
                 /\ (most = 1 /\ size = 5 * CENT /\ new > old) => new = old + 5 * CENT]_vars

\* a tick under maxTickMultiplier 1 and priceTickSize 0.05 has moved IDEA.NS
\* up from its first price, 11.99 or 12.01
C26_UpOneTick ==
    /\ tick.pos = 0
    /\ simulationSettings.maxTickMultiplier = 1
    /\ simulationSettings.priceTickSize = 5 * CENT
    /\ simulatedPrices["IDEA.NS"].lastUpdated = 1
    /\ simulatedPrices["IDEA.NS"].price \in {1204 * CENT, 1206 * CENT}

\* a tick under maxTickMultiplier 10 and priceTickSize 1.00 has halved the
\* first price of IDEA.NS
C26_Halved ==
    /\ tick.pos = 0
    /\ simulationSettings.maxTickMultiplier = 10
    /\ simulationSettings.priceTickSize = 100 * CENT
    /\ simulatedPrices["IDEA.NS"].lastUpdated = 1
    /\ simulatedPrices["IDEA.NS"].price \in {Round2((1199 * CENT) \div 2), Round2((1201 * CENT) \div 2)}

\* the sum 0.7 + volatility * speed * volatilityMultiplier * 5 of a symbol
\* under the settings, in units of 1e-5
C27_MovementChance(s) ==
    70000 + getVolatility(s) * simulationSettings.speed
               * simulationSettings.volatilityMultiplier * 5

\* C27: in a tick the symbol whose turn it is is skipped exactly when its
\* draw r is greater than movementChance: a symbol with r > movementChance
\* keeps its whole record, a symbol with r <= movementChance gets a new
\* record with the time of the tick, a symbol whose movementChance is 1 or
\* more is never skipped, and no other record changes in the pass.  Both
\* sides of the comparison are in units of 1/(32 * 100000).
C27_SkipRule ==
    [][\A s \in DOMAIN simulatedPrices :
          (tick.pos >= 1 /\ storeOrder[tick.pos] = s) =>
             LET r == tick.draws.movement * ((32 * 100000) \div RandDen)
                 chance == 32 * C27_MovementChance(s)
             IN  /\ r > chance <=> simulatedPrices'[s] = simulatedPrices[s]
                 /\ r <= chance => simulatedPrices'[s].lastUpdated = tick.now
                 /\ chance >= 32 * 100000 => simulatedPrices'[s] # simulatedPrices[s]
                 /\ \A o \in DOMAIN simulatedPrices \ {s} :
                       simulatedPrices'[o] = simulatedPrices[o]]_vars

\* in a tick under the default settings IDEA.NS, whose movementChance is
\* 0.79, has been skipped on the draw 809/1024, and HDFCBANK.NS, whose
\* movementChance is 0.8, has moved
C27_SkippedAboveChance ==
    /\ tick.pos = 13
    /\ storeOrder[12] = "IDEA.NS"
    /\ tick.draws.movement = 809
    /\ C27_MovementChance("IDEA.NS") = 79000
    /\ simulatedPrices["IDEA.NS"].lastUpdated < tick.now
    /\ simulatedPrices["HDFCBANK.NS"].lastUpdated = tick.now

\* in a tick under the default settings IDEA.NS has moved on the draw 808/1024
C27_MovedBelowChance ==
    /\ tick.pos = 13
    /\ storeOrder[12] = "IDEA.NS"
    /\ tick.draws.movement = 808
    /\ C27_MovementChance("IDEA.NS") = 79000
    /\ simulatedPrices["IDEA.NS"].lastUpdated = tick.now

\* in a tick under speed 0.5 HDFCBANK.NS, whose movementChance is 0.75, has
\* moved on the draw 768/1024 = 0.75, and ITC.NS, whose movementChance is
\* 0.7375, has been skipped
C27_MovedAtChance ==
    /\ tick.pos = 13
    /\ storeOrder[1] = "HDFCBANK.NS"
    /\ storeOrder[3] = "ITC.NS"
    /\ tick.draws.movement = 768
    /\ C27_MovementChance("HDFCBANK.NS") = 75000
    /\ C27_MovementChance("ITC.NS") = 73750
    /\ simulatedPrices["HDFCBANK.NS"].lastUpdated = tick.now
    /\ simulatedPrices["ITC.NS"].lastUpdated < tick.now

\* in a tick under speed 10 IDEA.NS, movementChance 1.6, has moved on the
\* draw 1023/1024
C27_MovedAboveOne ==
    /\ tick.pos = 13
    /\ storeOrder[12] = "IDEA.NS"
    /\ tick.draws.movement = 1023
    /\ C27_MovementChance("IDEA.NS") >= 100000
    /\ simulatedPrices["IDEA.NS"].lastUpdated = tick.now

\* C28: in a step that is not a reset the volume of no symbol goes down, so
\* between two resets it never decreases over any sequence of ticks; the
\* pass of a tick over a symbol raises its volume by at least 0 and less
\* than 50000.
C28_VolumeGrows ==
    [][nResets' = nResets =>
          \A s \in DOMAIN simulatedPrices :
             /\ simulatedPrices'[s].volume >= simulatedPrices[s].volume
             /\ simulatedPrices'[s].volume - simulatedPrices[s].volume < 50000]_vars

\* two ticks in a row, no reset, have raised the first volume of IDEA.NS,
\* one by Math.floor(9/1024 * 50000) = 439 and one by
\* Math.floor(1023/1024 * 50000) = 49951
C28_TwoTicksAdded ==
    /\ nResets = 0
    /\ clock = 2
    /\ tick.pos = 0
    /\ simulatedPrices["IDEA.NS"].volume \in {1000000 + 439 + 49951, 10990234 + 439 + 49951}

\* C29: in a step that is not a reset the high of no symbol goes down and
\* its low does not go up, and a symbol that the tick moves gets
\* high = max(high, newPrice) and low = min(low, newPrice).
C29_HighLowWiden ==
    [][nResets' = nResets =>
          \A s \in DOMAIN simulatedPrices :
             /\ simulatedPrices'[s].high >= simulatedPrices[s].high
             /\ simulatedPrices'[s].low <= simulatedPrices[s].low
             /\ simulatedPrices'[s] # simulatedPrices[s] =>
                   /\ simulatedPrices'[s].high
                         = Max(simulatedPrices[s].high, simulatedPrices'[s].price)
                   /\ simulatedPrices'[s].low
                         = Min(simulatedPrices[s].low, simulatedPrices'[s].price)]_vars

\* C30: in every state the stored bid of a symbol is at most its stored price
\* and its stored ask at least its stored price, and both are within a cent
\* of the stored price times 0.9995 and 1.0005.
C30_BidPriceAsk ==
    \A q \in Quotes :
       /\ q.bid <= q.price
       /\ q.price <= q.ask
       /\ Abs(q.bid - (q.price - q.price \div 2000)) <= CENT
       /\ Abs(q.ask - (q.price + q.price \div 2000)) <= CENT

\* after a reset and a tick a Quote has a bid below its price and an ask above it
C30_SpreadAfterResetAndTick ==
    /\ nResets >= 1
    /\ tick.pos = 0
    /\ \E q \in Quotes :
          q.lastUpdated >= 1 /\ q.lastUpdated = clock /\ q.bid < q.price /\ q.price < q.ask

\* the Market Clock's rule: the day and the minute of the day in India
\* Standard Time, UTC+5:30, are those of the instant 330 minutes later, and
\* the market is open from Monday to Friday from 9:15 to 15:30
C31_TradingHours(now) ==
    LET minutes == now.utcDay * 24 * 60 + now.utcMinutes + 330
        day == (minutes \div (24 * 60)) % 7
        minuteOfDay == minutes % (24 * 60)
    IN  day \in 1..5 /\ minuteOfDay >= 9 * 60 + 15 /\ minuteOfDay < 15 * 60 + 30

\* C31: the market status that the simulation server reports is open when
\* alwaysOpen is set, and otherwise open exactly when the reading of the
\* clock is within the trading hours of India Standard Time; the live-data
\* server, which has no settings, reports open exactly within these hours.
\* The settings and the reading determine the status.
C31_MarketClock ==
    [][/\ response'.op = "GET /api/market/status" =>
             (response'.data[1].marketStatus.isOpen
                <=> \/ Truthy(simulationSettings'.alwaysOpen)
                    \/ C31_TradingHours(response'.data[1].serverTime))
       /\ live'.returned.from = "GET /api/market/status" =>
             (live'.returned.value[1].marketStatus.isOpen
                <=> C31_TradingHours(live'.returned.value[1].serverTime))]_vars

\* with alwaysOpen false the status was read on Sunday 18:30 UTC, Monday
\* 0:00 in India: closed, and not for the weekend
C31_MondayMidnight ==
    /\ response.op = "GET /api/market/status"
    /\ simulationSettings.alwaysOpen = JSBool(FALSE)
    /\ response.data[1].serverTime = [utcDay |-> 0, utcMinutes |-> 1110]
    /\ ~response.data[1].marketStatus.isOpen
    /\ response.data[1].marketStatus.reason = "Pre-Market - Opening at 9:15 AM IST"

\* with alwaysOpen false the status was read on Friday 3:45 UTC, 9:15 in India: open
C31_FridayOpening ==
    /\ response.op = "GET /api/market/status"
    /\ simulationSettings.alwaysOpen = JSBool(FALSE)
    /\ response.data[1].serverTime = [utcDay |-> 5, utcMinutes |-> 225]
    /\ response.data[1].marketStatus.isOpen

\* the Store holds the prices that initializeSimulatedPrices wrote: no tick
\* has run since the start, or the last step was a reset
C32_JustInitialised == (clock = 0 /\ nResets = 0) \/ response.op = "POST /api/simulation/reset"

\* volatility * basePrice of the two catalog entries of the store, in
\* micro-units: 0.018 for Telecom, 0.02 for an index
C32_Reach(s) == IF s = "IDEA.NS" THEN 18 * 12 * (MICRO \div 1000) ELSE 20 * 1085 * (MICRO \div 1000)

\* C32 as stated: right after init or reset the stored price of every symbol
\* lies within basePrice +/- volatility * basePrice.
C32_PriceNearBase ==
    C32_JustInitialised =>
       \A s \in DOMAIN simulatedPrices :
          Abs(simulatedPrices[s].price - AllStocks(s).basePrice * MICRO) <= C32_Reach(s)

\* C32, amended: right after init or reset the stored price of every symbol
\* lies within half a cent of the interval basePrice +/- volatility *
\* basePrice, whatever the prices were before: it is a value of the
\* interval rounded to cents.
C32_PriceNearBaseRounded ==
    C32_JustInitialised =>
       \A s \in DOMAIN simulatedPrices :
          Abs(simulatedPrices[s].price - AllStocks(s).basePrice * MICRO)
             <= C32_Reach(s) + CENT \div 2

\* a reset after a tick has stored 11.78 for IDEA.NS, below 12 - 0.216 = 11.784
C32_ResetBelowInterval ==
    /\ response.op = "POST /api/simulation/reset"
    /\ clock >= 1
    /\ simulatedPrices["IDEA.NS"].price = 1178 * CENT

\* C33: in every state alwaysOpen is a boolean, and a settings update whose
\* alwaysOpen is not a boolean leaves alwaysOpen as it was.
C33_AlwaysOpenBoolean ==
    /\ simulationSettings.alwaysOpen.t = "boolean"
    /\ (response.op = "PUT /api/simulation/settings" /\ response.settings # <<>>)
          => response.settings[1].alwaysOpen.t = "boolean"

\* C34: in every stored series, which is as generateHistoricalData made it,
\* the open of each candle after the first is the close of the candle before
\* it, and the close of each candle is at least half of its open.
C34_CarriedForward ==
    \A s \in DOMAIN priceHistory :
       LET series == priceHistory[s]
       IN  /\ \A i \in 1..(Len(series) - 1) : series[i + 1].open = series[i].close
           /\ \A i \in DOMAIN series : 2 * series[i].close >= series[i].open

\* a series made by a reset spans a weekend and has candles that close away
\* from their open, the last one among them
C34_SeriesAcrossWeekend ==
    /\ nResets >= 1
    /\ \E s \in DOMAIN priceHistory :
          LET series == priceHistory[s]
          IN  /\ Len(series) >= 4
              /\ \E i \in 1..(Len(series) - 1) :
                    /\ series[i + 1].timestamp = series[i].timestamp + 3 * DAY
                    /\ series[i].close # series[i].open
              /\ series[Len(series)].close # series[Len(series)].open

\* C35: the change of a kept day is trend + u * (2 * volatility) * currentPrice
\* with trend = (basePrice - currentPrice) * 0.001 and u = 2r - 1 for the
\* draw r of Math.random(), so that u ranges over (-1, 1).  Here for the
\* first candle of every series, made with r = 1023/1024 from the first
\* currentPrice 0.9 * basePrice, to the cent.
C35_FullSwing ==
    limits.histDraws = "OneDraw" =>
       \A s \in DOMAIN priceHistory :
          LET currentPrice == MulDiv(BasePrice(s), 9000, 10000)
              trend == (BasePrice(s) - currentPrice) \div 1000
              u == 2 * 1023 - RandDen
              change == trend + Scaled(currentPrice, u, 2 * getVolatility(s))
          IN  priceHistory[s] # <<>> =>
                 Abs(priceHistory[s][1].close - (currentPrice + change)) <= CENT

\* C36: in every state the symbols of the Store are the symbols of the
\* catalog, stocks and indices, each once in the iteration order, and they
\* are the symbols that have a stored history series; no step adds or
\* removes a symbol.
C36_SymbolsFixed ==
    /\ DOMAIN simulatedPrices = StockSymbols \cup IndexSymbols
    /\ DOMAIN priceHistory = DOMAIN simulatedPrices
    /\ {storeOrder[i] : i \in DOMAIN storeOrder} = DOMAIN simulatedPrices
    /\ Len(storeOrder) = Cardinality(DOMAIN simulatedPrices)
    /\ \A s \in DOMAIN simulatedPrices : simulatedPrices[s].symbol = s

\* after a reset and a tick the health route has counted the 14 symbols
C36_CountedAfterResetAndTick ==
    /\ response.op = "GET /api/health"
    /\ response.data[1].stocksAvailable = 14
    /\ nResets >= 1
    /\ clock >= 1
    /\ \E s \in DOMAIN simulatedPrices : simulatedPrices[s].lastUpdated >= 1
\* C37: no settings update, accepted or ignored, and no reset leaves the engine
\* without an armed timer, and with alwaysOpen set a tick runs after every
\* settings update and after every reset: the timer that startPriceUpdates
\* armed fires and updateSimulatedPrices passes its gate.
C37_Armed ==
    /\ updateIntervalId \in DOMAIN timers
    /\ Cardinality(DOMAIN timers) = 1

C37_Handled ==
    /\ tick.pos = 0
    /\ clock < limits.ticks
    /\ response.op \in {"PUT /api/simulation/settings", "POST /api/simulation/reset"}

C37_TickRuns ==
    \/ tick.pos = 1 /\ tick.now = clock /\ response = NoResponse
    \/ ~Truthy(simulationSettings.alwaysOpen)

C37_TicksKeepHappening ==
    /\ []C37_Armed
    /\ C37_Handled ~> C37_TickRuns

\* a tick runs on the timer that the second settings update armed after a reset
C37_TickAfterUpdates ==
    /\ nResets >= 1
    /\ nextTimerId >= 4
    /\ updateIntervalId = nextTimerId - 1
    /\ DOMAIN timers = {updateIntervalId}
    /\ Truthy(simulationSettings.alwaysOpen)
    /\ clock >= 1
    /\ tick.pos >= 1
\* C38: a call of fetchRealTimeQuote that returns from its catch returns the
\* data of the entry stockCache holds for the symbol when it returns, and
\* null when stockCache holds none.
C38_ReturnsCurrentEntry ==
    live.returned.from = "catch"
       => live.returned.value =
             IF live.returned.symbol \in DOMAIN live.stockCache
             THEN <<live.stockCache[live.returned.symbol].data>>
             ELSE <<>>
\* the symbols of the quotes in r are those of s, in order, with some left out
RECURSIVE C39_InOrder(_, _)
C39_InOrder(r, s) ==
    IF r = <<>> THEN TRUE
    ELSE IF s = <<>> THEN FALSE
    ELSE IF Head(r) # <<>> /\ Head(r)[1].symbol = Head(s)
         THEN C39_InOrder(Tail(r), Tail(s))
         ELSE C39_InOrder(r, Tail(s))

C39_Results ==
    LET m == live.multi
    IN  /\ \A k \in DOMAIN m.results : m.results[k] # <<>>
        /\ Len(m.results) <= Len(m.symbols)
        /\ C39_InOrder(m.results, m.symbols)

\* C39: one call of fetchMultipleQuotes has at most 5 provider requests
\* outstanding; a request starts only when none is outstanding and every
\* earlier position has returned, and it belongs to the batch at the loop
\* index; the results are non-null quotes in the order of symbols, at most
\* one for each symbol.
C39_BatchesOfFive ==
    /\ [](Cardinality(live.calls) <= 5 /\ C39_Results)
    /\ [][live'.calls \ live.calls # {}
            => /\ live.calls = {}
               /\ \A call \in live'.calls :
                     /\ call.id \in (live'.multi.i + 1) .. (live'.multi.i + 5)
                     /\ call.symbol = live'.multi.symbols[call.id]
               /\ live'.multi.i \in {0, live.multi.i + 5}
               /\ live'.multi.i > 0 => live.multi.phase = "sleep"]_vars

\* a call for 6 symbols has returned after two batches, the second with a
\* provider request, and with a null left out
C39_TwoBatchesReturned ==
    /\ live.multi.phase = "returned"
    /\ Len(live.multi.symbols) = 6
    /\ live.fetched = 6
    /\ Len(live.multi.results) \in 1 .. 5
    /\ live.multi.results[Len(live.multi.results)][1].symbol = "INFY.NS"
====
